---------------------------- MODULE Spec2Model ----------------------------
(***************************************************************************)
(* A model of the retrieval core of the document summariser:               *)
(*   - DocumentStore  (backend/services/document_store.py): per-document   *)
(*     status, the shared summary slot and the summary-version log;        *)
(*   - VectorStore / PgVectorStore (backend/services/vector_store.py,      *)
(*     vector_store_pg.py): the chunk index and its top-k search;          *)
(*   - HashedEmbeddings (backend/services/embeddings.py).                  *)
(* Spec      drives the DocumentStore,                                     *)
(* SpecIndex drives the three index implementations.                       *)
(***************************************************************************)
EXTENDS Integers, Sequences, FiniteSets, TLC

VARIABLES
    docs,       \* DocumentStore._docs : doc_id -> DocumentRecord
    lastCall,   \* the most recent DocumentStore call: operation, arguments, result
    backend,    \* which index was constructed: "memory", "vs_pg" or "pg"
    rows,       \* the index: VectorStore._data, or the rows of the backing table
    lastOp,     \* the most recent index call: operation, arguments, outcome
    threads,    \* concurrent callers: each thread's call and its position in it
    chunker,    \* one chunk_text call: its arguments, locals and position
    chunks_table, \* the rows of PgVectorStore's table when run beside VectorStore
    call,       \* one call of a function or route: arguments, position, result
    qa_history  \* the QAHistory object: _items, _max and its last call

storeVars == <<docs, lastCall>>
indexVars == <<backend, rows, lastOp>>
otherVars == <<threads, chunker, chunks_table, call, qa_history>>
vars ==
    <<docs, lastCall, backend, rows, lastOp, threads, chunker, chunks_table,
      call, qa_history>>

---------------------------------------------------------------------------
(* Bounds and input domains                                                *)

\* total number of SummaryVersions the store may hold (over all documents)
MaxVersions == 3
\* readings of the wall clock (datetime.utcnow, whole seconds); a reading is an
\* input of each call and decides no branch of the code
Timestamps == {"t0"}

\* uuid4 values add_document can draw
UuidPool == {"d1", "d2"}
\* ids a caller can pass; an id is unknown until add_document has issued it
CallerIds == UuidPool
Filenames == {"a.txt"}
Paths == {"/up/a.txt"}
Contents == {"s1", "s2"}
Messages == {"boom"}
\* Python's None (Optional[str], Optional[Dict])
None == "<None>"
\* validation reports handed to push_summary_version (set_summary passes None)
Validations == {"report"}
PushNotes == {""}
VersionIndexes == -1 .. MaxVersions

\* longest chunk list handed to one upsert
MaxChunks == 2
Backends == {"memory", "vs_pg", "pg"}
IndexDocs == {"d1", "d2"}
\* chunk texts: "a", "A b" and the blank " "
IndexTexts == {<<"a">>, <<"A", " ", "b">>, <<" ">>}
ChunkLists == UNION {[1 .. n -> IndexTexts] : n \in 0 .. MaxChunks}
\* query texts: "a" and "B"
Queries == {<<"a">>, <<"B">>}
\* top_k values: negative, zero, below and above the index size, the default 5
TopKs == {-1, 0, 1, 2, 5}

---------------------------------------------------------------------------
(* DocumentStore                                                           *)

SummaryVersion(content, created_at, note, validation) ==
    [content |-> content, created_at |-> created_at,
     note |-> note, validation |-> validation]

DocumentRecord(id, filename, path) ==
    [id |-> id, filename |-> filename, path |-> path,
     summary |-> None, status |-> "pending", summary_versions |-> <<>>]

\* f"rollback_to_{version_index}"
rollback_note(version_index) == "rollback_to_" \o ToString(version_index)

\* seq[i] for a Python list: a negative index counts from the end
py_index(seq, i) == IF i < 0 THEN seq[Len(seq) + i + 1] ELSE seq[i + 1]

\* push_summary_version without line 43 (the summary slot is not updated)
push_summary_version_keeps_summary(D, now, doc_id, content, note, validation) ==
    IF doc_id \notin DOMAIN D
    THEN [docs |-> D, ret |-> -1]
    ELSE LET ver == SummaryVersion(content, now, note, validation)
             D1  == [D  EXCEPT ![doc_id].summary_versions = Append(@, ver)]
             D3  == [D1 EXCEPT ![doc_id].status = "ready"]
         IN  [docs |-> D3, ret |-> Len(D3[doc_id].summary_versions) - 1]

\* push_summary_version returning len(summary_versions) instead of len - 1
push_summary_version_returns_len(D, now, doc_id, content, note, validation) ==
    IF doc_id \notin DOMAIN D
    THEN [docs |-> D, ret |-> -1]
    ELSE LET ver == SummaryVersion(content, now, note, validation)
             D1  == [D  EXCEPT ![doc_id].summary_versions = Append(@, ver)]
             D2  == [D1 EXCEPT ![doc_id].summary = content]
             D3  == [D2 EXCEPT ![doc_id].status = "ready"]
         IN  [docs |-> D3, ret |-> Len(D3[doc_id].summary_versions)]

\* push_summary_version creating the record of an unknown document
push_summary_version_creates(D, now, doc_id, content, note, validation) ==
    LET ver == SummaryVersion(content, now, note, validation)
        D0  == [x \in DOMAIN D \cup {doc_id} |->
                   IF x \in DOMAIN D THEN D[x]
                   ELSE DocumentRecord(doc_id, "", "")]
        D1  == [D0 EXCEPT ![doc_id].summary_versions = Append(@, ver)]
        D2  == [D1 EXCEPT ![doc_id].summary = content]
        D3  == [D2 EXCEPT ![doc_id].status = "ready"]
    IN  [docs |-> D3, ret |-> Len(D3[doc_id].summary_versions) - 1]

\* The store after push_summary_version and the value it returns.
push_summary_version(D, now, doc_id, content, note, validation) ==
    IF doc_id \notin DOMAIN D
    THEN [docs |-> D, ret |-> -1]
    ELSE LET ver == SummaryVersion(content, now, note, validation)
             D1  == [D  EXCEPT ![doc_id].summary_versions = Append(@, ver)]
             D2  == [D1 EXCEPT ![doc_id].summary = content]
             D3  == [D2 EXCEPT ![doc_id].status = "ready"]
         IN  [docs |-> D3, ret |-> Len(D3[doc_id].summary_versions) - 1]

set_summary(D, now, doc_id, summary) ==
    [docs |-> push_summary_version(D, now, doc_id, summary, "set_summary", None).docs,
     ret |-> None]

\* set_error that also resets the version log
set_error_clears_history(D, doc_id, message) ==
    IF doc_id \in DOMAIN D
    THEN [docs |-> [D EXCEPT ![doc_id].status = "error",
                             ![doc_id].summary = message,
                             ![doc_id].summary_versions = <<>>],
          ret |-> None]
    ELSE [docs |-> D, ret |-> None]

\* set_error that leaves the message of an earlier set_error in place
set_error_keeps_first(D, doc_id, message) ==
    IF doc_id \in DOMAIN D /\ D[doc_id].status # "error"
    THEN [docs |-> [D EXCEPT ![doc_id].status = "error",
                             ![doc_id].summary = message],
          ret |-> None]
    ELSE [docs |-> D, ret |-> None]

set_error(D, doc_id, message) ==
    IF doc_id \in DOMAIN D
    THEN [docs |-> [D EXCEPT ![doc_id].status = "error",
                             ![doc_id].summary = message],
          ret |-> None]
    ELSE [docs |-> D, ret |-> None]

list_summary_versions(D, doc_id) ==
    IF doc_id \in DOMAIN D THEN D[doc_id].summary_versions ELSE <<>>

\* version_index < len(...) with Python's negative indexes let through
rollback_in_bounds_negative(version_index, n) ==
    0 - n <= version_index /\ version_index < n

\* 0 <= version_index < len(doc.summary_versions)
rollback_in_bounds(version_index, n) ==
    0 <= version_index /\ version_index < n

\* a destructive revert: the log is cut back to the chosen version
rollback_summary_truncates(D, now, doc_id, version_index) ==
    IF doc_id \notin DOMAIN D
    THEN [docs |-> D, ret |-> FALSE]
    ELSE IF rollback_in_bounds(version_index, Len(D[doc_id].summary_versions))
         THEN LET chosen == py_index(D[doc_id].summary_versions, version_index)
              IN  [docs |-> [D EXCEPT ![doc_id].summary = chosen.content,
                                      ![doc_id].status = "ready",
                                      ![doc_id].summary_versions =
                                           SubSeq(@, 1, version_index + 1)],
                   ret |-> TRUE]
         ELSE [docs |-> D, ret |-> FALSE]

\* rollback_summary without validation=chosen.validation
rollback_summary_drops_validation(D, now, doc_id, version_index) ==
    IF doc_id \notin DOMAIN D
    THEN [docs |-> D, ret |-> FALSE]
    ELSE IF rollback_in_bounds(version_index, Len(D[doc_id].summary_versions))
         THEN LET chosen == py_index(D[doc_id].summary_versions, version_index)
                  D1 == [D EXCEPT ![doc_id].summary = chosen.content]
              IN  [docs |-> push_summary_version(D1, now, doc_id, chosen.content,
                                rollback_note(version_index), None).docs,
                   ret |-> TRUE]
         ELSE [docs |-> D, ret |-> FALSE]

rollback_summary(D, now, doc_id, version_index) ==
    IF doc_id \notin DOMAIN D
    THEN [docs |-> D, ret |-> FALSE]
    ELSE IF rollback_in_bounds(version_index, Len(D[doc_id].summary_versions))
         THEN LET chosen == py_index(D[doc_id].summary_versions, version_index)
                  D1 == [D EXCEPT ![doc_id].summary = chosen.content]
              IN  [docs |-> push_summary_version(D1, now, doc_id, chosen.content,
                                rollback_note(version_index),
                                chosen.validation).docs,
                   ret |-> TRUE]
         ELSE [docs |-> D, ret |-> FALSE]

\* number of versions held by the whole store
RECURSIVE TotalVersions(_, _)
TotalVersions(D, ids) ==
    IF ids = {} THEN 0
    ELSE LET d == CHOOSE x \in ids : TRUE
         IN  Len(D[d].summary_versions) + TotalVersions(D, ids \ {d})

\* the bound on the store's size: a call is taken when its result fits
Fits(D) == TotalVersions(D, DOMAIN D) <= MaxVersions

\* a returned Python value with its type: int, bool, str, list or None
RetInt(n) == [int |-> n]
RetBool(b) == [bool |-> b]
RetStr(x) == [str |-> x]
RetList(l) == [list |-> l]
RetNone == [none |-> None]

Call(op, doc_id, ret) == [op |-> op, doc_id |-> doc_id, ret |-> ret]

---------------------------------------------------------------------------
(* HashedEmbeddings                                                        *)
(* A text is the sequence of its characters.  A vector is kept exactly:    *)
(* [hist |-> the bucket histogram (bucket -> count, non-zero buckets only),*)
(*  div2 |-> the square of the norm it was divided by (1 when it was not   *)
(*           divided)], standing for hist / sqrt(div2).  float32 rounding  *)
(* is not modelled.                                                        *)

\* HashedEmbeddings.dim as every caller constructs it
Dim == 384

\* characters str.split() splits on
Whitespace == {" "}

\* str.lower(), one character
lower(ch) == CASE ch = "A" -> "a" [] ch = "B" -> "b" [] ch = "C" -> "c"
               [] OTHER -> ch

\* The maximal runs, within text[lo .. hi], of characters that are in chars
\* (inside = TRUE) or not in chars (inside = FALSE).  The two halves are
\* scanned separately and a run that crosses the middle is put together
\* again, which keeps the evaluation shallow for long texts.
RECURSIVE runs(_, _, _, _, _)
runs(text, lo, hi, chars, inside) ==
    IF lo > hi THEN <<>>
    ELSE IF lo = hi
         THEN (IF (text[lo] \in chars) = inside THEN <<<<text[lo]>>>> ELSE <<>>)
         ELSE LET m == (lo + hi) \div 2
                  L == runs(text, lo, m, chars, inside)
                  R == runs(text, m + 1, hi, chars, inside)
              IN  IF /\ (text[m] \in chars) = inside
                     /\ (text[m + 1] \in chars) = inside
                  THEN SubSeq(L, 1, Len(L) - 1) \o <<L[Len(L)] \o R[1]>>
                           \o Tail(R)
                  ELSE L \o R

\* text.lower().split(): the maximal runs of non-whitespace characters
split(text) ==
    runs([i \in 1 .. Len(text) |-> lower(text[i])], 1, Len(text),
         Whitespace, FALSE)

tokenize(text) == SelectSeq(split(text), LAMBDA t : t # <<>>)

\* int(hashlib.md5(token).hexdigest(), 16) for the tokens over a, b, c used
\* here, reduced mod 384 (bb and cc share a bucket)
md5_int(token) ==
    CASE token = <<"a">> -> 97
      [] token = <<"b">> -> 271
      [] token = <<"a", "a">> -> 146
      [] token = <<"a", "b">> -> 288
      [] token = <<"b", "a">> -> 324
      [] token = <<"b", "b">> -> 252
      [] token = <<"a", "a", "a">> -> 8
      [] token = <<"a", "a", "b">> -> 60
      [] token = <<"a", "b", "a">> -> 42
      [] token = <<"a", "b", "b">> -> 132
      [] token = <<"b", "a", "a">> -> 64
      [] token = <<"b", "a", "b">> -> 125
      [] token = <<"b", "b", "a">> -> 167
      [] token = <<"b", "b", "b">> -> 333
      [] token = <<"a", "a", "a", "a">> -> 357
      [] token = <<"a", "a", "a", "b">> -> 184
      [] token = <<"a", "a", "b", "a">> -> 383
      [] token = <<"a", "a", "b", "b">> -> 374
      [] token = <<"a", "b", "a", "a">> -> 238
      [] token = <<"a", "b", "a", "b">> -> 326
      [] token = <<"a", "b", "b", "a">> -> 60
      [] token = <<"a", "b", "b", "b">> -> 275
      [] token = <<"b", "a", "a", "a">> -> 17
      [] token = <<"b", "a", "a", "b">> -> 96
      [] token = <<"b", "a", "b", "a">> -> 327
      [] token = <<"b", "a", "b", "b">> -> 76
      [] token = <<"b", "b", "a", "a">> -> 113
      [] token = <<"b", "b", "a", "b">> -> 333
      [] token = <<"b", "b", "b", "a">> -> 39
      [] token = <<"b", "b", "b", "b">> -> 0
      [] token = <<"a", "a", "a", "a", "a">> -> 66
      [] token = <<"a", "a", "a", "a", "b">> -> 91
      [] token = <<"a", "a", "a", "b", "a">> -> 350
      [] token = <<"a", "a", "a", "b", "b">> -> 371
      [] token = <<"a", "a", "b", "a", "a">> -> 83
      [] token = <<"a", "a", "b", "a", "b">> -> 247
      [] token = <<"a", "a", "b", "b", "a">> -> 78
      [] token = <<"a", "a", "b", "b", "b">> -> 164
      [] token = <<"a", "b", "a", "a", "a">> -> 59
      [] token = <<"a", "b", "a", "a", "b">> -> 149
      [] token = <<"a", "b", "a", "b", "a">> -> 218
      [] token = <<"a", "b", "a", "b", "b">> -> 365
      [] token = <<"a", "b", "b", "a", "a">> -> 69
      [] token = <<"a", "b", "b", "a", "b">> -> 360
      [] token = <<"a", "b", "b", "b", "a">> -> 98
      [] token = <<"a", "b", "b", "b", "b">> -> 62
      [] token = <<"b", "a", "a", "a", "a">> -> 282
      [] token = <<"b", "a", "a", "a", "b">> -> 221
      [] token = <<"b", "a", "a", "b", "a">> -> 311
      [] token = <<"b", "a", "a", "b", "b">> -> 62
      [] token = <<"b", "a", "b", "a", "a">> -> 322
      [] token = <<"b", "a", "b", "a", "b">> -> 60
      [] token = <<"b", "a", "b", "b", "a">> -> 74
      [] token = <<"b", "a", "b", "b", "b">> -> 80
      [] token = <<"b", "b", "a", "a", "a">> -> 167
      [] token = <<"b", "b", "a", "a", "b">> -> 147
      [] token = <<"b", "b", "a", "b", "a">> -> 326
      [] token = <<"b", "b", "a", "b", "b">> -> 184
      [] token = <<"b", "b", "b", "a", "a">> -> 349
      [] token = <<"b", "b", "b", "a", "b">> -> 336
      [] token = <<"b", "b", "b", "b", "a">> -> 81
      [] token = <<"b", "b", "b", "b", "b">> -> 257
      [] token = <<"c">> -> 307
      [] token = <<"c", "c">> -> 252
      [] token = <<"a", ".">> -> 285
      [] token = <<"b", ".">> -> 50
      [] token = <<"c", ".">> -> 142

bucket(token) == md5_int(token) % Dim

\* the histogram after vecs[i, idx] += 1.0 for every token
\* (the counts of the two halves of the token list, added bucket by bucket)
add_counts(f, g) ==
    LET both == DOMAIN f \cap DOMAIN g
        sum == [b \in both |-> f[b] + g[b]]
    IN  sum @@ f @@ g

RECURSIVE count_tokens(_)
count_tokens(tokens) ==
    IF tokens = <<>> THEN <<>>
    ELSE IF Len(tokens) = 1 THEN bucket(Head(tokens)) :> 1
         ELSE LET m == Len(tokens) \div 2
              IN  add_counts(count_tokens(SubSeq(tokens, 1, m)),
                             count_tokens(SubSeq(tokens, m + 1, Len(tokens))))

RECURSIVE SumOver(_, _)
SumOver(f, S) ==
    IF S = {} THEN 0
    ELSE LET x == CHOOSE y \in S : TRUE IN f[x] + SumOver(f, S \ {x})

\* np.linalg.norm(v) squared
norm2(h) == SumOver([b \in DOMAIN h |-> h[b] * h[b]], DOMAIN h)

\* one row of embed_texts without lines 26-28: the histogram as counted
embed_text_unnormalised(text) ==
    [hist |-> count_tokens(tokenize(text)), div2 |-> 1]

\* one row of embed_texts: normalised unless its norm is 0
embed_text(text) ==
    LET h == count_tokens(tokenize(text))
    IN  [hist |-> h, div2 |-> IF norm2(h) > 0 THEN norm2(h) ELSE 1]

embed_texts(texts) == [i \in 1 .. Len(texts) |-> embed_text(texts[i])]

IsZero(v) == DOMAIN v.hist = {}

\* PgVectorStore._l2_normalize: s = sqrt(sum x*x) or 1.0
l2_normalize(v) ==
    IF IsZero(v) THEN v ELSE [hist |-> v.hist, div2 |-> norm2(v.hist)]

RECURSIVE Gcd(_, _)
Gcd(a, b) == IF b = 0 THEN a ELSE Gcd(b, a % b)

\* A score is a float >= 0 kept as its square in lowest terms, or NaN.
Score(num, den) ==
    LET g == Gcd(num, den) IN [num |-> num \div g, den |-> den \div g, nan |-> FALSE]
NaN == [num |-> 0, den |-> 1, nan |-> TRUE]

\* float(np.dot(qvec, v))
dot(qvec, v) ==
    LET common == DOMAIN qvec.hist \cap DOMAIN v.hist
        n == SumOver([b \in common |-> qvec.hist[b] * v.hist[b]], common)
    IN  Score(n * n, qvec.div2 * v.div2)

\* 1 - (embedding <=> q): pgvector's cosine distance is NaN for a zero vector
pg_similarity(qvec, v) ==
    IF IsZero(qvec) \/ IsZero(v) THEN NaN ELSE dot(qvec, v)

\* a > b on floats (false when either is NaN)
ScoreGt(a, b) == ~a.nan /\ ~b.nan /\ a.num * b.den > b.num * a.den
\* a >= b on floats (false when either is NaN)
ScoreGe(a, b) == ~a.nan /\ ~b.nan /\ a.num * b.den >= b.num * a.den

---------------------------------------------------------------------------
(* VectorStore and PgVectorStore                                           *)

Min(a, b) == IF a <= b THEN a ELSE b
Max(a, b) == IF a >= b THEN a ELSE b

\* seq[:k] for a Python list: a negative k counts from the end
py_slice_to(seq, k) ==
    IF k >= 0 THEN SubSeq(seq, 1, Min(k, Len(seq)))
    ELSE SubSeq(seq, 1, Max(Len(seq) + k, 0))

Row(doc_id, chunk_idx, vec, content) ==
    [doc_id |-> doc_id, chunk_idx |-> chunk_idx, vec |-> vec, content |-> content]
Hit(doc_id, chunk_idx, score, content) ==
    [doc_id |-> doc_id, chunk_idx |-> chunk_idx, score |-> score,
     content |-> content]

\* the rows enumerate(zip(chunks, vecs)) appends or inserts, the first n of them
NewRows(document_id, chunks, vecs, n) ==
    [i \in 1 .. n |-> Row(document_id, i - 1, vecs[i], chunks[i])]

\* rows of every other document (the list filter, DELETE ... WHERE doc_id=)
delete_doc(data, document_id) ==
    SelectSeq(data, LAMBDA row : row.doc_id # document_id)

upsert_memory(data, document_id, chunks, vecs) ==
    delete_doc(data, document_id)
        \o NewRows(document_id, chunks, vecs, Min(Len(chunks), Len(vecs)))

\* list.sort(key=score, reverse=True): stable, equal scores keep their order
RECURSIVE sort_desc(_)
sort_desc(hits) ==
    IF hits = <<>> THEN <<>>
    ELSE LET rest == sort_desc(SubSeq(hits, 1, Len(hits) - 1))
             x == hits[Len(hits)]
             before == SelectSeq(rest, LAMBDA h : ScoreGe(h.score, x.score))
             after == SelectSeq(rest, LAMBDA h : ~ScoreGe(h.score, x.score))
         IN  before \o <<x>> \o after

search_memory(data, qvec, top_k) ==
    LET scores == [i \in 1 .. Len(data) |->
                      Hit(data[i].doc_id, data[i].chunk_idx,
                          dot(qvec, data[i].vec), data[i].content)]
    IN  py_slice_to(sort_desc(scores), top_k)

\* The table after the statements of an upsert run with autocommit: DELETE is
\* statement 0, the INSERT of chunk i is statement i + 1; statement fail_at
\* raises and has no effect, the earlier ones are committed
\* (fail_at > len(chunks): none raises).
upsert_pg(table, document_id, chunks, vecs, fail_at) ==
    IF fail_at = 0 THEN table
    ELSE delete_doc(table, document_id)
            \o NewRows(document_id, chunks, vecs, Min(fail_at - 1, Len(chunks)))

\* PgVectorStore.upsert_document: nothing is executed for an empty list
pg_upsert_document(table, doc_id, chunks, fail_at) ==
    IF chunks = <<>> THEN table
    ELSE upsert_pg(table, doc_id, chunks,
                   [i \in 1 .. Len(chunks) |-> l2_normalize(embed_texts(chunks)[i])],
                   fail_at)

\* ORDER BY embedding <=> q ASC: every order of the rows by ascending
\* distance; rows at equal distance come in any order, NaN sorts last
RECURSIVE pg_orders(_)
pg_orders(hits) ==
    IF hits = {} THEN {<<>>}
    ELSE LET first == {h \in hits : \A o \in hits :
                          ~ScoreGt(o.score, h.score) /\ (h.score.nan => o.score.nan)}
         IN  UNION {{<<h>> \o rest : rest \in pg_orders(hits \ {h})} : h \in first}

\* the answers SELECT ... ORDER BY ... LIMIT top_k can give (top_k >= 0)
search_pg(table, qvec, top_k) ==
    LET hits == {[pos |-> i, doc_id |-> table[i].doc_id,
                  chunk_idx |-> table[i].chunk_idx,
                  score |-> pg_similarity(qvec, table[i].vec),
                  content |-> table[i].content] : i \in 1 .. Len(table)}
    IN  {[i \in 1 .. Min(top_k, Len(o)) |->
             Hit(o[i].doc_id, o[i].chunk_idx, o[i].score, o[i].content)]
         : o \in pg_orders(hits)}

Op(op, doc_id, chunks, outcome, q, top_k, result) ==
    [op |-> op, doc_id |-> doc_id, chunks |-> chunks, outcome |-> outcome,
     q |-> q, top_k |-> top_k, result |-> result]

NoOp == Op("init", None, <<>>, "ok", <<>>, 0, <<>>)

---------------------------------------------------------------------------
(* Actions of the DocumentStore                                            *)

NoCall == Call("init", None, RetNone)

\* no concurrent caller, no chunk_text call, no second index
NoOthers ==
    /\ threads = <<>>
    /\ chunker = <<>>
    /\ chunks_table = <<>>
    /\ call = <<>>
    /\ qa_history = <<>>

InitStore ==
    /\ docs = <<>>
    /\ lastCall = NoCall
    /\ backend = "memory"
    /\ rows = <<>>
    /\ lastOp = NoOp
    /\ NoOthers

AddDocument(id, f, p) ==
    /\ id \notin DOMAIN docs
    /\ docs' = [x \in DOMAIN docs \cup {id} |->
                   IF x = id THEN DocumentRecord(id, f, p) ELSE docs[x]]
    /\ lastCall' = Call("add_document", id, RetStr(id))
    /\ UNCHANGED <<indexVars, otherVars>>

PushSummaryVersion(t, id, c, n, v) ==
    LET r == push_summary_version(docs, t, id, c, n, v)
    IN  /\ Fits(r.docs)
        /\ docs' = r.docs
        /\ lastCall' = Call("push_summary_version", id, RetInt(r.ret))
        /\ UNCHANGED <<indexVars, otherVars>>

SetSummary(t, id, c) ==
    LET r == set_summary(docs, t, id, c)
    IN  /\ Fits(r.docs)
        /\ docs' = r.docs
        /\ lastCall' = Call("set_summary", id, RetNone)
        /\ UNCHANGED <<indexVars, otherVars>>

SetError(id, m) ==
    LET r == set_error(docs, id, m)
    IN  /\ docs' = r.docs
        /\ lastCall' = [op |-> "set_error", doc_id |-> id, ret |-> RetNone,
                        message |-> m]
        /\ UNCHANGED <<indexVars, otherVars>>

ListSummaryVersions(id) ==
    /\ lastCall' = Call("list_summary_versions", id,
                        RetList(list_summary_versions(docs, id)))
    /\ UNCHANGED <<docs, indexVars, otherVars>>

RollbackSummary(t, id, i) ==
    LET r == rollback_summary(docs, t, id, i)
    IN  /\ Fits(r.docs)
        /\ docs' = r.docs
        /\ lastCall' = Call("rollback_summary", id, RetBool(r.ret))
        /\ UNCHANGED <<indexVars, otherVars>>

Next ==
    \/ \E id \in UuidPool, f \in Filenames, p \in Paths : AddDocument(id, f, p)
    \/ \E t \in Timestamps, id \in CallerIds, c \in Contents,
          n \in PushNotes, v \in Validations : PushSummaryVersion(t, id, c, n, v)
    \/ \E t \in Timestamps, id \in CallerIds, c \in Contents : SetSummary(t, id, c)
    \/ \E id \in CallerIds, m \in Messages : SetError(id, m)
    \/ \E id \in CallerIds : ListSummaryVersions(id)
    \/ \E t \in Timestamps, id \in CallerIds, i \in VersionIndexes :
          RollbackSummary(t, id, i)

Spec == InitStore /\ [][Next]_vars

---------------------------------------------------------------------------
(* Properties of the DocumentStore                                         *)

History(d) == docs[d].summary_versions
Last(seq) == seq[Len(seq)]
IsPrefix(a, b) == Len(a) <= Len(b) /\ SubSeq(b, 1, Len(a)) = a

\* C1 (as stated): a document with at least one version has its summary slot
\* equal to the content of its last version.
C1_SummaryIsLastVersion ==
    \A d \in DOMAIN docs :
        Len(History(d)) > 0 => docs[d].summary = Last(History(d)).content

\* C1 (amended): a document with at least one version whose status is not
\* error has its summary slot equal to the content of its last version
\* (set_error puts the message in the slot and appends nothing).
C1_SummaryIsLastVersionUnlessError ==
    \A d \in DOMAIN docs :
        (Len(History(d)) > 0 /\ docs[d].status # "error")
            => docs[d].summary = Last(History(d)).content

\* a ready document after its second append: the slot carries the content of
\* the last version, not of the first
C1_Witness ==
    /\ lastCall.op \in {"push_summary_version", "set_summary", "rollback_summary"}
    /\ lastCall.doc_id \in DOMAIN docs
    /\ Len(History(lastCall.doc_id)) >= 2
    /\ docs[lastCall.doc_id].status = "ready"
    /\ docs[lastCall.doc_id].summary = "s2"
    /\ History(lastCall.doc_id)[1].content = "s1"

\* C2: the version log is append-only: every step keeps every document and
\* leaves its earlier log as a prefix of its later log (no version is
\* removed, no field of a version changes).
C2_HistoryAppendOnly ==
    [][\A d \in DOMAIN docs :
          /\ d \in DOMAIN docs'
          /\ IsPrefix(docs[d].summary_versions, docs'[d].summary_versions)]_vars

\* a log that grew by pushes and then by a rollback to its first version
C2_Witness ==
    /\ lastCall.op = "rollback_summary"
    /\ lastCall.ret = RetBool(TRUE)
    /\ Len(History(lastCall.doc_id)) >= 3
    /\ Last(History(lastCall.doc_id)).note = "rollback_to_0"

\* C3: rollback_summary(doc, i) with 0 <= i < len(history) on a known document
\* returns True, appends exactly one version that has version i's content and
\* validation and the note rollback_to_<i>, leaves every earlier version as it
\* was, and makes version i's content the current summary.
C3_RollbackAppendsCopy ==
    [][\A t \in Timestamps, id \in DOMAIN docs, i \in VersionIndexes :
          (/\ 0 <= i
           /\ i < Len(docs[id].summary_versions)
           /\ RollbackSummary(t, id, i))
          => LET old == docs[id].summary_versions
                 new == docs'[id].summary_versions
             IN  /\ lastCall'.ret = RetBool(TRUE)
                 /\ Len(new) = Len(old) + 1
                 /\ SubSeq(new, 1, Len(old)) = old
                 /\ Last(new).content = old[i + 1].content
                 /\ Last(new).validation = old[i + 1].validation
                 /\ Last(new).note = "rollback_to_" \o ToString(i)
                 /\ docs'[id].summary = old[i + 1].content]_vars

\* a rollback to version 0 of a log that held a later version with another
\* content and another validation
C3_Witness ==
    /\ lastCall.op = "rollback_summary"
    /\ lastCall.ret = RetBool(TRUE)
    /\ LET h == History(lastCall.doc_id)
       IN  /\ Len(h) = 3
           /\ Last(h).note = "rollback_to_0"
           /\ h[1].content # h[2].content
           /\ h[1].validation # h[2].validation
           /\ h[1].validation = "report"

\* C4: rollback_summary(doc, i) with i out of bounds (i < 0 or
\* i >= len(history), any i when the history is empty) returns False and
\* leaves the document's history, summary and status as they were.
C4_RollbackOutOfBounds ==
    [][\A t \in Timestamps, id \in DOMAIN docs, i \in VersionIndexes :
          (/\ (i < 0 \/ i >= Len(docs[id].summary_versions))
           /\ RollbackSummary(t, id, i))
          => /\ lastCall'.ret = RetBool(FALSE)
             /\ docs'[id].summary_versions = docs[id].summary_versions
             /\ docs'[id].summary = docs[id].summary
             /\ docs'[id].status = docs[id].status]_vars

\* a refused rollback on a known document that has a history
C4_Witness ==
    /\ lastCall.op = "rollback_summary"
    /\ lastCall.ret = RetBool(FALSE)
    /\ lastCall.doc_id \in DOMAIN docs
    /\ Len(History(lastCall.doc_id)) >= 2

\* C5: push_summary_version on a known document appends one version carrying
\* the content, note and validation, sets status ready and the summary slot to
\* the content, and returns the previous history length; set_summary is that
\* push with note set_summary and no validation.
C5_PushAppends ==
    [][\A t \in Timestamps, id \in DOMAIN docs, c \in Contents :
          /\ \A n \in PushNotes, v \in Validations :
                PushSummaryVersion(t, id, c, n, v)
                => /\ docs'[id].summary_versions =
                        Append(docs[id].summary_versions,
                               [content |-> c, created_at |-> t,
                                note |-> n, validation |-> v])
                   /\ docs'[id].status = "ready"
                   /\ docs'[id].summary = c
                   /\ lastCall'.ret = RetInt(Len(docs[id].summary_versions))
          /\ SetSummary(t, id, c)
                => /\ docs'[id].summary_versions =
                        Append(docs[id].summary_versions,
                               [content |-> c, created_at |-> t,
                                note |-> "set_summary", validation |-> None])
                   /\ docs'[id].status = "ready"
                   /\ docs'[id].summary = c]_vars

\* a push onto a document that already held one version: it returns 1
C5_Witness ==
    /\ lastCall.op = "push_summary_version"
    /\ lastCall.ret = RetInt(1)
    /\ Len(History(lastCall.doc_id)) = 2
    /\ docs[lastCall.doc_id].status = "ready"
    /\ History(lastCall.doc_id)[1].note = "set_summary"

\* C6: with an unknown document id push_summary_version returns -1,
\* rollback_summary returns False, list_summary_versions returns the empty
\* list, set_summary and set_error return normally; none of them creates a
\* document or changes an existing one.
C6_UnknownDocument ==
    [][\A id \in CallerIds \ DOMAIN docs, t \in Timestamps :
          /\ \A c \in Contents, n \in PushNotes, v \in Validations :
                PushSummaryVersion(t, id, c, n, v)
                => (lastCall'.ret = RetInt(-1) /\ docs' = docs)
          /\ \A i \in VersionIndexes :
                RollbackSummary(t, id, i)
                => (lastCall'.ret = RetBool(FALSE) /\ docs' = docs)
          /\ ListSummaryVersions(id)
                => (lastCall'.ret = RetList(<<>>) /\ docs' = docs)
          /\ \A c \in Contents :
                SetSummary(t, id, c) => (lastCall'.ret = RetNone /\ docs' = docs)
          /\ \A m \in Messages :
                SetError(id, m) => (lastCall'.ret = RetNone /\ docs' = docs)]_vars

\* a push with an id that was never issued, beside a document with a history
C6_Witness ==
    /\ lastCall.op = "push_summary_version"
    /\ lastCall.ret = RetInt(-1)
    /\ lastCall.doc_id \notin DOMAIN docs
    /\ \E d \in DOMAIN docs : Len(History(d)) >= 1

\* C7: set_error on a known document sets status error and puts the message
\* in the summary slot; the document's history and every other document are
\* unchanged.
C7_SetErrorFrame ==
    [][\A id \in DOMAIN docs, m \in Messages :
          SetError(id, m)
          => /\ docs'[id].status = "error"
             /\ docs'[id].summary = m
             /\ docs'[id].summary_versions = docs[id].summary_versions
             /\ DOMAIN docs' = DOMAIN docs
             /\ \A o \in DOMAIN docs \ {id} : docs'[o] = docs[o]]_vars

\* set_error on a document with a history, beside another with a history
C7_Witness ==
    /\ lastCall.op = "set_error"
    /\ lastCall.doc_id \in DOMAIN docs
    /\ docs[lastCall.doc_id].status = "error"
    /\ docs[lastCall.doc_id].summary = "boom"
    /\ Len(History(lastCall.doc_id)) >= 1
    /\ \E o \in DOMAIN docs \ {lastCall.doc_id} : Len(History(o)) >= 1



---------------------------------------------------------------------------
(* Actions of the index                                                    *)

InitIndex ==
    /\ docs = <<>>
    /\ lastCall = NoCall
    /\ backend \in Backends
    /\ rows = <<>>
    /\ lastOp = NoOp
    /\ NoOthers

Outcome(chunks, fail_at) == IF fail_at <= Len(chunks) THEN "raised" ELSE "ok"

\* VectorStore.upsert_document, DATABASE_URL unset
UpsertMemory(document_id, chunks) ==
    /\ backend = "memory"
    /\ rows' = upsert_memory(rows, document_id, chunks, embed_texts(chunks))
    /\ lastOp' = Op("upsert", document_id, chunks, "ok", <<>>, 0, <<>>)
    /\ UNCHANGED <<backend, storeVars, otherVars>>

\* VectorStore.upsert_document, DATABASE_URL set; statement fail_at raises
UpsertVsPg(document_id, chunks, fail_at) ==
    /\ backend = "vs_pg"
    /\ fail_at <= Len(chunks) + 1
    /\ rows' = upsert_pg(rows, document_id, chunks, embed_texts(chunks), fail_at)
    /\ lastOp' = Op("upsert", document_id, chunks, Outcome(chunks, fail_at),
                    <<>>, 0, <<>>)
    /\ UNCHANGED <<backend, storeVars, otherVars>>

\* PgVectorStore.upsert_document; statement fail_at raises
UpsertPg(doc_id, chunks, fail_at) ==
    /\ backend = "pg"
    /\ fail_at <= Len(chunks) + 1
    /\ chunks = <<>> => fail_at = 1
    /\ rows' = pg_upsert_document(rows, doc_id, chunks, fail_at)
    /\ lastOp' = Op("upsert", doc_id, chunks, Outcome(chunks, fail_at),
                    <<>>, 0, <<>>)
    /\ UNCHANGED <<backend, storeVars, otherVars>>

\* VectorStore.search, DATABASE_URL unset
SearchMemory(query_text, top_k) ==
    /\ backend = "memory"
    /\ lastOp' = Op("search", None, <<>>, "ok", query_text, top_k,
                    search_memory(rows, embed_texts(<<query_text>>)[1], top_k))
    /\ UNCHANGED <<backend, rows, storeVars, otherVars>>

\* VectorStore.search, DATABASE_URL set; a negative LIMIT is an SQL error
SearchVsPg(query_text, top_k) ==
    /\ backend = "vs_pg"
    /\ IF top_k < 0
       THEN lastOp' = Op("search", None, <<>>, "raised", query_text, top_k, <<>>)
       ELSE \E res \in search_pg(rows, embed_texts(<<query_text>>)[1], top_k) :
               lastOp' = Op("search", None, <<>>, "ok", query_text, top_k, res)
    /\ UNCHANGED <<backend, rows, storeVars, otherVars>>

\* PgVectorStore.search; a negative LIMIT is an SQL error
SearchPg(query, top_k) ==
    /\ backend = "pg"
    /\ IF top_k < 0
       THEN lastOp' = Op("search", None, <<>>, "raised", query, top_k, <<>>)
       ELSE \E res \in search_pg(rows,
                                 l2_normalize(embed_texts(<<query>>)[1]), top_k) :
               lastOp' = Op("search", None, <<>>, "ok", query, top_k, res)
    /\ UNCHANGED <<backend, rows, storeVars, otherVars>>

NextIndex ==
    \/ \E d \in IndexDocs, c \in ChunkLists : UpsertMemory(d, c)
    \/ \E d \in IndexDocs, c \in ChunkLists, f \in 0 .. MaxChunks + 1 :
          UpsertVsPg(d, c, f)
    \/ \E d \in IndexDocs, c \in ChunkLists, f \in 0 .. MaxChunks + 1 :
          UpsertPg(d, c, f)
    \/ \E q \in Queries, k \in TopKs : SearchMemory(q, k)
    \/ \E q \in Queries, k \in TopKs : SearchVsPg(q, k)
    \/ \E q \in Queries, k \in TopKs : SearchPg(q, k)

SpecIndex == InitIndex /\ [][NextIndex]_vars

---------------------------------------------------------------------------
(* Properties of the index                                                 *)

\* the (chunk_idx, content) entries the index holds for a document, in order
DocEntries(table, d) ==
    LET mine == SelectSeq(table, LAMBDA row : row.doc_id = d)
    IN  [i \in 1 .. Len(mine) |-> <<mine[i].chunk_idx, mine[i].content>>]

\* the entries of a chunk list: chunk_idx 0 .. len - 1 in order
EntriesOf(chunks) == [i \in 1 .. Len(chunks) |-> <<i - 1, chunks[i]>>]

\* the step is an upsert call that ran to its end
UpsertCompletes == lastOp'.op = "upsert" /\ lastOp'.outcome = "ok"

\* the step is an upsert call one of whose statements raised
UpsertRaises == lastOp'.op = "upsert" /\ lastOp'.outcome = "raised"

\* the step is a search call that returned
SearchReturns == lastOp'.op = "search" /\ lastOp'.outcome = "ok"

IsIndexed(hit) ==
    \E j \in 1 .. Len(rows) :
        /\ rows[j].doc_id = hit.doc_id
        /\ rows[j].chunk_idx = hit.chunk_idx
        /\ rows[j].content = hit.content

\* C8: a completed upsert(doc, chunks), for any chunk list (the empty one
\* too) and under every backend, leaves the index holding for doc exactly
\* chunks with chunk_idx 0 .. len - 1 in order; a search returns only indexed
\* chunks (so none of an earlier upsert), and returns every indexed chunk
\* when top_k is at least the index size.
C8_UpsertReplacesWholesale ==
    [][/\ UpsertCompletes
          => DocEntries(rows', lastOp'.doc_id) = EntriesOf(lastOp'.chunks)
       /\ SearchReturns
          => /\ \A i \in 1 .. Len(lastOp'.result) : IsIndexed(lastOp'.result[i])
             /\ lastOp'.top_k >= Len(rows)
                   => Len(lastOp'.result) = Len(rows)]_vars

\* C9: an upsert(doc, chunks) that fails part-way leaves the index holding
\* for doc either its complete previous chunk set or the complete new one.
C9_UpsertFailureAtomic ==
    [][UpsertRaises
       => \/ DocEntries(rows', lastOp'.doc_id) = DocEntries(rows, lastOp'.doc_id)
          \/ DocEntries(rows', lastOp'.doc_id) = EntriesOf(lastOp'.chunks)]_vars

\* C10 (for the in-memory index): search(q, top_k) returns at most top_k
\* results (none for a negative top_k), no result has a higher score than one
\* before it, and the same search repeated on the unchanged index returns the
\* same sequence.
C10_SearchTopK ==
    [][(SearchReturns /\ backend = "memory")
       => LET res == lastOp'.result
          IN  /\ Len(res) <= Max(lastOp'.top_k, 0)
              /\ \A i, j \in 1 .. Len(res) :
                    i < j => ~ScoreGt(res[j].score, res[i].score)
              /\ (lastOp.op = "search" /\ lastOp.q = lastOp'.q
                     /\ lastOp.top_k = lastOp'.top_k)
                    => res = lastOp.result]_vars

\* the order of document ids as strings
DocRank(d) == CASE d = "d1" -> 1 [] d = "d2" -> 2 [] OTHER -> 3

\* (document_id, chunk_index) of hit a is before that of hit b
KeyBefore(a, b) ==
    \/ DocRank(a.doc_id) < DocRank(b.doc_id)
    \/ a.doc_id = b.doc_id /\ a.chunk_idx < b.chunk_idx

\* C11: in the result of a search, two chunks of equal similarity come in
\* ascending (document_id, chunk_index) order, whatever the order in which
\* the documents were upserted or re-upserted.
C11_TieBreakByKey ==
    [][SearchReturns
       => LET res == lastOp'.result
          IN  \A i, j \in 1 .. Len(res) :
                 (i < j /\ ~res[i].score.nan /\ res[i].score = res[j].score)
                    => KeyBefore(res[i], res[j])]_vars

---------------------------------------------------------------------------
(* Two threads each running one upsert call, statement by statement        *)

Threads == {1, 2}
\* the chunks indexed before the two calls start, and the lists they pass
OldChunks == <<<<"b">>>>
RaceTexts == {<<"a">>, <<"A", " ", "b">>}
RaceChunkLists == UNION {[1 .. n -> RaceTexts] : n \in 0 .. MaxChunks}
RaceDocs == {"d1", "d2"}

\* the vectors an upsert stores: embed_texts, normalised again by PgVectorStore
upsert_vecs(b, chunks) ==
    IF b = "pg"
    THEN [i \in 1 .. Len(chunks) |-> l2_normalize(embed_texts(chunks)[i])]
    ELSE embed_texts(chunks)

\* the index after sequential upserts of OldChunks for d3, d1 and d2
SeedRows(b) ==
    LET put(table, d) ==
            IF b = "memory"
            THEN upsert_memory(table, d, OldChunks, upsert_vecs(b, OldChunks))
            ELSE upsert_pg(table, d, OldChunks, upsert_vecs(b, OldChunks),
                           Len(OldChunks) + 2)
    IN  put(put(put(<<>>, "d3"), "d1"), "d2")

Thread(pc, doc_id, chunks, kept, i) ==
    [pc |-> pc, doc_id |-> doc_id, chunks |-> chunks, kept |-> kept, i |-> i]

InitUpsertRace ==
    /\ docs = <<>>
    /\ lastCall = NoCall
    /\ lastOp = NoOp
    /\ chunker = <<>>
    /\ chunks_table = <<>>
    /\ call = <<>>
    /\ qa_history = <<>>
    /\ backend \in Backends
    /\ rows = SeedRows(backend)
    /\ threads = [t \in Threads |-> Thread("idle", None, <<>>, <<>>, 0)]

\* the statement after the last append or INSERT of the loop
after_loop(chunks, i) == IF i < Len(chunks) THEN "loop" ELSE "done"

\* upsert_document is entered: embed_texts(chunks) is computed from the
\* arguments alone; PgVectorStore returns at once for an empty list
BeginUpsert(t, doc_id, chunks) ==
    /\ threads[t].pc = "idle"
    /\ threads' = [threads EXCEPT ![t] =
          Thread(IF backend = "memory" THEN "filter"
                 ELSE IF backend = "pg" /\ chunks = <<>> THEN "done"
                 ELSE "delete",
                 doc_id, chunks, <<>>, 0)]
    /\ UNCHANGED <<storeVars, indexVars, chunker, chunks_table, call, qa_history>>

\* _upsert_memory: the list comprehension reads self._data and builds the
\* list of the other documents' rows; the result is still a local value
MemFilter(t) ==
    /\ threads[t].pc = "filter"
    /\ threads' = [threads EXCEPT ![t].pc = "assign",
                                  ![t].kept = delete_doc(rows, threads[t].doc_id)]
    /\ UNCHANGED <<storeVars, indexVars, chunker, chunks_table, call, qa_history>>

\* _upsert_memory: self._data = <the list built by the comprehension>
MemAssign(t) ==
    /\ threads[t].pc = "assign"
    /\ rows' = threads[t].kept
    /\ threads' = [threads EXCEPT ![t].pc = after_loop(threads[t].chunks, 0),
                                  ![t].kept = <<>>]
    /\ UNCHANGED <<storeVars, backend, lastOp, chunker, chunks_table, call, qa_history>>

\* _upsert_memory: one self._data.append((document_id, i, v, c))
MemAppend(t) ==
    LET me == threads[t]
        vecs == upsert_vecs(backend, me.chunks)
    IN  /\ backend = "memory"
        /\ me.pc = "loop"
        /\ rows' = Append(rows, Row(me.doc_id, me.i, vecs[me.i + 1],
                                    me.chunks[me.i + 1]))
        /\ threads' = [threads EXCEPT ![t].pc = after_loop(me.chunks, me.i + 1),
                                      ![t].i = me.i + 1]
        /\ UNCHANGED <<storeVars, backend, lastOp, chunker, chunks_table, call, qa_history>>

\* _upsert_pg / PgVectorStore.upsert_document: the DELETE, committed at once
PgDelete(t) ==
    /\ threads[t].pc = "delete"
    /\ rows' = delete_doc(rows, threads[t].doc_id)
    /\ threads' = [threads EXCEPT ![t].pc = after_loop(threads[t].chunks, 0)]
    /\ UNCHANGED <<storeVars, backend, lastOp, chunker, chunks_table, call, qa_history>>

\* (doc_id, chunk_idx) is the primary key of PgVectorStore's table chunks;
\* doc_embeddings of VectorStore has a serial key of its own
key_taken(b, table, doc_id, i) ==
    /\ b = "pg"
    /\ \E j \in 1 .. Len(table) :
          table[j].doc_id = doc_id /\ table[j].chunk_idx = i

\* one INSERT, committed at once; a duplicate primary key raises and the
\* exception leaves upsert_document
PgInsert(t) ==
    LET me == threads[t]
        vecs == upsert_vecs(backend, me.chunks)
    IN  /\ backend # "memory"
        /\ me.pc = "loop"
        /\ IF key_taken(backend, rows, me.doc_id, me.i)
           THEN /\ threads' = [threads EXCEPT ![t].pc = "raised"]
                /\ UNCHANGED rows
           ELSE /\ rows' = Append(rows, Row(me.doc_id, me.i, vecs[me.i + 1],
                                            me.chunks[me.i + 1]))
                /\ threads' = [threads EXCEPT
                                  ![t].pc = after_loop(me.chunks, me.i + 1),
                                  ![t].i = me.i + 1]
        /\ UNCHANGED <<storeVars, backend, lastOp, chunker, chunks_table, call, qa_history>>

NextUpsertRace ==
    \/ \E t \in Threads, d \in RaceDocs, c \in RaceChunkLists : BeginUpsert(t, d, c)
    \/ \E t \in Threads : MemFilter(t)
    \/ \E t \in Threads : MemAssign(t)
    \/ \E t \in Threads : MemAppend(t)
    \/ \E t \in Threads : PgDelete(t)
    \/ \E t \in Threads : PgInsert(t)

SpecUpsertRace == InitUpsertRace /\ [][NextUpsertRace]_vars

\* both upsert calls have returned normally
BothCompleted == \A t \in Threads : threads[t].pc = "done"

\* both calls pass a non-empty chunk list
BothNonEmpty == \A t \in Threads : threads[t].chunks # <<>>

\* C12: once two interleaved upserts of the same document (each with a
\* non-empty chunk list) have both completed, the document's indexed chunks
\* are exactly the chunk list of one of the two calls (chunk_idx 0 .. len - 1
\* in order, no duplicates, nothing of the other call mixed in).
C12_SameDocumentAtomic ==
    (BothCompleted /\ BothNonEmpty /\ threads[1].doc_id = threads[2].doc_id)
        => \E t \in Threads :
              DocEntries(rows, threads[t].doc_id) = EntriesOf(threads[t].chunks)

\* C13 (for the in-memory index): once two interleaved upserts of different
\* documents have both completed, the index holds for each document exactly
\* the chunk list of its call, and the chunks of the third document are those
\* it had before.
C13_DifferentDocumentsIndependent ==
    (BothCompleted /\ backend = "memory" /\ threads[1].doc_id # threads[2].doc_id)
        => /\ \A t \in Threads :
                 DocEntries(rows, threads[t].doc_id) = EntriesOf(threads[t].chunks)
           /\ DocEntries(rows, "d3") = EntriesOf(OldChunks)

---------------------------------------------------------------------------
(* Two threads each running one push_summary_version or rollback_summary   *)
(* call, statement by statement                                            *)

RaceContents == {"s1", "s2"}
RaceIndexes == -1 .. 2
RaceIds == {"d1", "d2"}

\* the store after add_document, and after add_document and one push of "s0"
SeedStores ==
    LET added == [x \in {"d1"} |-> DocumentRecord("d1", "a.txt", "/up/a.txt")]
    IN  {added, push_summary_version(added, "t0", "d1", "s0", "", None).docs}

\* self._docs[doc_id].summary_versions.append(ver)
append_version_replaces(D, doc_id, ver) ==
    [D EXCEPT ![doc_id].summary_versions = <<ver>>]

append_version(D, doc_id, ver) ==
    [D EXCEPT ![doc_id].summary_versions = Append(@, ver)]

\* self._docs[doc_id].summary = content
store_summary(D, doc_id, content) == [D EXCEPT ![doc_id].summary = content]

\* self._docs[doc_id].status = "ready"
store_status(D, doc_id, status) == [D EXCEPT ![doc_id].status = status]

StoreThread(pc, op, doc_id, content, note, validation, version_index, ret) ==
    [pc |-> pc, op |-> op, doc_id |-> doc_id, content |-> content,
     note |-> note, validation |-> validation,
     version_index |-> version_index, ret |-> ret]

IdleThread == StoreThread("idle", None, None, None, None, None, 0, RetNone)

InitStoreRace ==
    /\ docs \in SeedStores
    /\ lastCall = NoCall
    /\ backend = "memory"
    /\ rows = <<>>
    /\ lastOp = NoOp
    /\ chunker = <<>>
    /\ chunks_table = <<>>
    /\ call = <<>>
    /\ qa_history = <<>>
    /\ threads = [t \in Threads |-> IdleThread]

raceFrame == <<lastCall, indexVars, chunker, chunks_table, call, qa_history>>

BeginPush(t, doc_id, content, validation) ==
    /\ threads[t].pc = "idle"
    /\ threads' = [threads EXCEPT ![t] =
          StoreThread("p_check", "push", doc_id, content, "", validation, 0, RetNone)]
    /\ UNCHANGED <<docs, raceFrame>>

BeginRollback(t, doc_id, version_index) ==
    /\ threads[t].pc = "idle"
    /\ threads' = [threads EXCEPT ![t] =
          StoreThread("r_get", "rollback", doc_id, None, None, None,
                      version_index, RetNone)]
    /\ UNCHANGED <<docs, raceFrame>>

\* line 38-39: if doc_id not in self._docs: return -1
PushCheck(t) ==
    LET me == threads[t]
    IN  /\ me.pc = "p_check"
        /\ threads' = [threads EXCEPT ![t] =
              IF me.doc_id \in DOMAIN docs THEN [me EXCEPT !.pc = "p_append"]
              ELSE IF me.op = "push"
                   THEN [me EXCEPT !.pc = "done", !.ret = RetInt(-1)]
                   ELSE [me EXCEPT !.pc = "r_return"]]
        /\ UNCHANGED <<docs, raceFrame>>

\* lines 40-41: the version is built and appended
PushAppend(t, now) ==
    LET me == threads[t]
    IN  /\ me.pc = "p_append"
        /\ docs' = append_version(docs, me.doc_id,
                      SummaryVersion(me.content, now, me.note, me.validation))
        /\ threads' = [threads EXCEPT ![t].pc = "p_summary"]
        /\ UNCHANGED raceFrame

\* line 43
PushStoreSummary(t) ==
    /\ threads[t].pc = "p_summary"
    /\ docs' = store_summary(docs, threads[t].doc_id, threads[t].content)
    /\ threads' = [threads EXCEPT ![t].pc = "p_status"]
    /\ UNCHANGED raceFrame

\* line 44
PushStoreStatus(t) ==
    /\ threads[t].pc = "p_status"
    /\ docs' = store_status(docs, threads[t].doc_id, "ready")
    /\ threads' = [threads EXCEPT ![t].pc = "p_return"]
    /\ UNCHANGED raceFrame

\* line 45: return len(...) - 1, to the caller or to rollback_summary
PushReturn(t) ==
    LET me == threads[t]
    IN  /\ me.pc = "p_return"
        /\ threads' = [threads EXCEPT ![t] =
              IF me.op = "push"
              THEN [me EXCEPT !.pc = "done",
                       !.ret = RetInt(Len(docs[me.doc_id].summary_versions) - 1)]
              ELSE [me EXCEPT !.pc = "r_return"]]
        /\ UNCHANGED <<docs, raceFrame>>

\* lines 61-63: doc = self._docs.get(doc_id); if not doc: return False
RollbackGet(t) ==
    LET me == threads[t]
    IN  /\ me.pc = "r_get"
        /\ threads' = [threads EXCEPT ![t] =
              IF me.doc_id \in DOMAIN docs THEN [me EXCEPT !.pc = "r_check"]
              ELSE [me EXCEPT !.pc = "done", !.ret = RetBool(FALSE)]]
        /\ UNCHANGED <<docs, raceFrame>>

\* lines 64-65 and 70: the bounds test and chosen = doc.summary_versions[i]
RollbackCheck(t) ==
    LET me == threads[t]
        versions == docs[me.doc_id].summary_versions
    IN  /\ me.pc = "r_check"
        /\ threads' = [threads EXCEPT ![t] =
              IF rollback_in_bounds(me.version_index, Len(versions))
              THEN LET chosen == py_index(versions, me.version_index)
                   IN  [me EXCEPT !.pc = "r_summary",
                                  !.content = chosen.content,
                                  !.note = rollback_note(me.version_index),
                                  !.validation = chosen.validation]
              ELSE [me EXCEPT !.pc = "done", !.ret = RetBool(FALSE)]]
        /\ UNCHANGED <<docs, raceFrame>>

\* line 66: doc.summary = chosen.content; line 68 then enters the push
RollbackStoreSummary(t) ==
    /\ threads[t].pc = "r_summary"
    /\ docs' = store_summary(docs, threads[t].doc_id, threads[t].content)
    /\ threads' = [threads EXCEPT ![t].pc = "p_check"]
    /\ UNCHANGED raceFrame

\* line 69: return True
RollbackReturn(t) ==
    /\ threads[t].pc = "r_return"
    /\ threads' = [threads EXCEPT ![t].pc = "done", ![t].ret = RetBool(TRUE)]
    /\ UNCHANGED <<docs, raceFrame>>

NextStoreRace ==
    \/ \E t \in Threads, d \in RaceIds, c \in RaceContents, v \in Validations :
          BeginPush(t, d, c, v)
    \/ \E t \in Threads, d \in RaceIds, i \in RaceIndexes : BeginRollback(t, d, i)
    \/ \E t \in Threads : PushCheck(t)
    \/ \E t \in Threads, now \in Timestamps : PushAppend(t, now)
    \/ \E t \in Threads : PushStoreSummary(t)
    \/ \E t \in Threads : PushStoreStatus(t)
    \/ \E t \in Threads : PushReturn(t)
    \/ \E t \in Threads : RollbackGet(t)
    \/ \E t \in Threads : RollbackCheck(t)
    \/ \E t \in Threads : RollbackStoreSummary(t)
    \/ \E t \in Threads : RollbackReturn(t)

SpecStoreRace == InitStoreRace /\ [][NextStoreRace]_vars

\* thread t ran a call that appended a version: a push of a known document
\* or an in-bounds rollback
Appended(t) ==
    /\ threads[t].pc = "done"
    /\ \/ threads[t].op = "push" /\ threads[t].ret # RetInt(-1)
       \/ threads[t].op = "rollback" /\ threads[t].ret = RetBool(TRUE)

\* the version thread t appended is at position i of its document's history
VersionAt(t, i) ==
    LET h == History(threads[t].doc_id)
    IN  /\ i \in 1 .. Len(h)
        /\ h[i].content = threads[t].content
        /\ h[i].note = threads[t].note
        /\ h[i].validation = threads[t].validation

\* C14: under every interleaving of the statements of concurrent
\* push_summary_version and rollback_summary calls, each step leaves every
\* document's earlier history a prefix of its later one (no version
\* disappears, the length never decreases), and when two calls that append
\* to the same document have both completed, both versions are in the
\* history, at two different positions among its last two.
C14_NoVersionLost ==
    /\ [][\A d \in DOMAIN docs :
             IsPrefix(docs[d].summary_versions, docs'[d].summary_versions)]_vars
    /\ []((Appended(1) /\ Appended(2) /\ threads[1].doc_id = threads[2].doc_id)
             => LET n == Len(History(threads[1].doc_id))
                IN  \/ VersionAt(1, n - 1) /\ VersionAt(2, n)
                    \/ VersionAt(2, n - 1) /\ VersionAt(1, n))

\* two pushes of different contents have both completed on one document, and
\* their statements interleaved: the summary slot is not the last version's
C14_Witness ==
    /\ Appended(1) /\ Appended(2)
    /\ threads[1].op = "push" /\ threads[2].op = "push"
    /\ threads[1].doc_id = threads[2].doc_id
    /\ threads[1].content # threads[2].content
    /\ docs[threads[1].doc_id].summary
          # Last(History(threads[1].doc_id)).content

\* C15: when two interleaved calls (push_summary_version or
\* rollback_summary) have both completed, every document with a version has
\* its current summary equal to the content of its last version.
C15_SummaryIsLastAfterRace ==
    BothCompleted
        => \A d \in DOMAIN docs :
              Len(History(d)) >= 1 => docs[d].summary = Last(History(d)).content

---------------------------------------------------------------------------
(* The in-memory VectorStore and PgVectorStore driven by the same calls    *)

InitBackends ==
    /\ docs = <<>>
    /\ lastCall = NoCall
    /\ backend = "memory"
    /\ rows = <<>>
    /\ chunks_table = <<>>
    /\ call = <<>>
    /\ qa_history = <<>>
    /\ lastOp = NoOp
    /\ threads = <<>>
    /\ chunker = <<>>

\* a value per store: of VectorStore (DATABASE_URL unset) and of PgVectorStore
Both(memory, pg) == [memory |-> memory, pg |-> pg]

\* upsert_document(doc_id, chunks) on both stores, no statement failing
BackendsUpsert(doc_id, chunks) ==
    /\ rows' = upsert_memory(rows, doc_id, chunks, embed_texts(chunks))
    /\ chunks_table' = pg_upsert_document(chunks_table, doc_id, chunks,
                                          Len(chunks) + 2)
    /\ lastOp' = Op("upsert", doc_id, chunks, Both("ok", "ok"), <<>>, 0,
                    Both(<<>>, <<>>))
    /\ UNCHANGED <<storeVars, backend, threads, chunker, call, qa_history>>

\* search(query, top_k) on both stores
BackendsSearch(query, top_k) ==
    /\ LET res == search_memory(rows, embed_texts(<<query>>)[1], top_k)
       IN  IF top_k < 0
           THEN lastOp' = Op("search", None, <<>>, Both("ok", "raised"), query,
                             top_k, Both(res, <<>>))
           ELSE \E pg \in search_pg(chunks_table,
                                    l2_normalize(embed_texts(<<query>>)[1]),
                                    top_k) :
                   lastOp' = Op("search", None, <<>>, Both("ok", "ok"), query,
                                top_k, Both(res, pg))
    /\ UNCHANGED <<storeVars, backend, rows, chunks_table, threads, chunker, call,
                 qa_history>>

NextBackends ==
    \/ \E d \in IndexDocs, c \in ChunkLists : BackendsUpsert(d, c)
    \/ \E q \in Queries, k \in TopKs : BackendsSearch(q, k)

SpecBackends == InitBackends /\ [][NextBackends]_vars

\* the set of (document_id, chunk_index, content) entries of an index
EntrySet(table) ==
    {<<table[i].doc_id, table[i].chunk_idx, table[i].content>> :
        i \in 1 .. Len(table)}

SameChunk(a, b) ==
    a.doc_id = b.doc_id /\ a.chunk_idx = b.chunk_idx /\ a.content = b.content

\* C16: driven by the same upsert and search calls (an upsert with an empty
\* chunk list among them), the two stores hold the same set of
\* (document_id, chunk_index, content) entries after every step, and a
\* search gives a chunk the same similarity in both and orders two chunks of
\* equal similarity the same way in both.
C16_BackendsAgree ==
    /\ EntrySet(rows) = EntrySet(chunks_table)
    /\ (lastOp.op = "search" /\ lastOp.outcome = Both("ok", "ok"))
          => LET m == lastOp.result.memory
                 p == lastOp.result.pg
             IN  /\ \A i \in 1 .. Len(m), j \in 1 .. Len(p) :
                       SameChunk(m[i], p[j]) => m[i].score = p[j].score
                 /\ \A i, k \in 1 .. Len(m), j, l \in 1 .. Len(p) :
                       (/\ SameChunk(m[i], p[j]) /\ SameChunk(m[k], p[l])
                        /\ m[i].score = m[k].score /\ i < k) => j < l

---------------------------------------------------------------------------
(* chunk_text                                                              *)

\* longest text and largest max_chars handed to chunk_text
MaxText == 5
MaxChars == 3
ChunkAlphabet == {"x", "y", " "}
ChunkTexts == UNION {[1 .. n -> ChunkAlphabet] : n \in 0 .. MaxText}

\* str.strip(): leading and trailing whitespace removed
strip_nothing(text) == text

RECURSIVE strip(_)
strip(text) ==
    IF text = <<>> THEN <<>>
    ELSE IF Head(text) \in Whitespace THEN strip(Tail(text))
    ELSE IF text[Len(text)] \in Whitespace
         THEN strip(SubSeq(text, 1, Len(text) - 1))
    ELSE text

\* text[start:end] for 0 <= start <= end <= len(text)
py_slice(text, start, end) == SubSeq(text, start + 1, end)

\* a window of one character whatever max_chars is
window_end_one_char(start, max_chars, n) == Min(start + 1, n)

\* line 14: end = min(start + max_chars, n)
window_end(start, max_chars, n) == Min(start + max_chars, n)

\* the next window starting one character after the previous start
next_start_by_one(start, end, overlap) == start + 1

\* the next window starting one character after the previous end
next_start_gap(start, end, overlap) == end + 1

\* line 19: start = end - overlap if end - overlap > start else end
next_start(start, end, overlap) ==
    IF end - overlap > start THEN end - overlap ELSE end

Chunker(pc, text, max_chars, overlap, stripped, start, chunks, spans, ret) ==
    [pc |-> pc, text |-> text, max_chars |-> max_chars, overlap |-> overlap,
     stripped |-> stripped, start |-> start, chunks |-> chunks,
     spans |-> spans, ret |-> ret]

\* chunk_text(text, max_chars, overlap) is called; overlap = max_chars is the
\* one case where the clamp of line 19 acts
InitChunker ==
    /\ docs = <<>>
    /\ lastCall = NoCall
    /\ backend = "memory"
    /\ rows = <<>>
    /\ lastOp = NoOp
    /\ threads = <<>>
    /\ chunks_table = <<>>
    /\ call = <<>>
    /\ qa_history = <<>>
    /\ \E text \in ChunkTexts, max_chars \in 1 .. MaxChars :
          \E overlap \in 0 .. max_chars :
             chunker = Chunker("call", text, max_chars, overlap,
                               <<>>, 0, <<>>, <<>>, <<>>)

chunkFrame == <<storeVars, indexVars, threads, chunks_table, call, qa_history>>

\* lines 7-12: strip, the empty test, chunks = [], start = 0, n = len(text)
ChunkEnter ==
    /\ chunker.pc = "call"
    /\ LET text == strip(chunker.text)
       IN  chunker' = [chunker EXCEPT
                          !.stripped = text,
                          !.pc = IF text = <<>> THEN "done" ELSE "while"]
    /\ UNCHANGED chunkFrame

\* lines 13-19: the loop test and one pass of the loop body; spans records
\* the (start, end) of each appended chunk
ChunkIterate ==
    LET text == chunker.stripped
        n == Len(text)
        start == chunker.start
        end == window_end(start, chunker.max_chars, n)
    IN  /\ chunker.pc = "while"
        /\ chunker' =
              IF ~(start < n) THEN [chunker EXCEPT !.pc = "return"]
              ELSE [chunker EXCEPT
                       !.chunks = Append(@, py_slice(text, start, end)),
                       !.spans = Append(@, <<start, end>>),
                       !.start = IF end >= n THEN start
                                 ELSE next_start(start, end, chunker.overlap),
                       !.pc = IF end >= n THEN "return" ELSE "while"]
        /\ UNCHANGED chunkFrame

\* line 20: return chunks
ChunkReturn ==
    /\ chunker.pc = "return"
    /\ chunker' = [chunker EXCEPT !.pc = "done", !.ret = chunker.chunks]
    /\ UNCHANGED chunkFrame

NextChunker == ChunkEnter \/ ChunkIterate \/ ChunkReturn

SpecChunker == InitChunker /\ [][NextChunker]_vars

\* a call that has started keeps running until it returns
FairSpecChunker == SpecChunker /\ WF_vars(NextChunker)

\* the contract's precondition 0 <= overlap < max_chars
ValidArgs == 0 <= chunker.overlap /\ chunker.overlap < chunker.max_chars

Returned == chunker.pc = "done"

CeilDiv(a, b) == (a + b - 1) \div b

\* C17: for every text and 0 <= overlap < max_chars the call returns, and
\* every pass of the loop that goes round again strictly increases start:
\* the next window starts at the previous end minus overlap.
C17_ChunkingTerminates ==
    /\ ValidArgs => <>Returned
    /\ [][(ValidArgs /\ chunker.pc = "while" /\ chunker'.pc = "while")
             => /\ chunker'.start > chunker.start
                /\ chunker'.start
                      = Last(chunker'.spans)[2] - chunker.overlap]_vars

\* a call with overlap >= 1 has returned three chunks or more
C17_Witness ==
    /\ Returned /\ ValidArgs
    /\ chunker.overlap >= 1
    /\ Len(chunker.ret) >= 3

\* the spans cover text: from 0 to len(text), no gap, each chunk the substring
Covers(text) ==
    LET sp == chunker.spans
        ch == chunker.ret
    IN  /\ Len(ch) = Len(sp) /\ Len(ch) >= 1
        /\ sp[1][1] = 0
        /\ sp[Len(sp)][2] = Len(text)
        /\ \A i \in 1 .. Len(sp) - 1 :
              sp[i][1] < sp[i + 1][1] /\ sp[i + 1][1] <= sp[i][2]
        /\ \A i \in 1 .. Len(sp) : ch[i] = py_slice(text, sp[i][1], sp[i][2])

\* C18 as stated: for every non-empty text T and 0 <= overlap < max_chars the
\* chunk spans cover T exactly.
C18_CoversText ==
    (Returned /\ ValidArgs /\ chunker.text # <<>>) => Covers(chunker.text)

\* C18: for every text T that is not empty or all whitespace and
\* 0 <= overlap < max_chars, the chunk spans cover T.strip() exactly: the
\* first starts at 0, the last ends at len(T.strip()), consecutive spans leave
\* no gap, and each chunk is the substring of T.strip() at its span.
C18_CoversStrippedText ==
    (Returned /\ ValidArgs /\ strip(chunker.text) # <<>>)
        => Covers(strip(chunker.text))

\* a text with whitespace at both ends was chunked into overlapping windows
C18_Witness ==
    /\ Returned /\ ValidArgs
    /\ chunker.overlap >= 1
    /\ chunker.text # <<>>
    /\ Head(chunker.text) \in Whitespace
    /\ chunker.text[Len(chunker.text)] \in Whitespace
    /\ Len(chunker.ret) >= 2

\* C19: for every non-empty text T and 0 <= overlap < max_chars the number
\* of chunks is at most ceil(len(T) / (max_chars - overlap)).
C19_ChunkCountBound ==
    (Returned /\ ValidArgs /\ chunker.text # <<>>)
        => Len(chunker.ret)
              <= CeilDiv(Len(chunker.text), chunker.max_chars - chunker.overlap)

\* the bound is met with more than one chunk
C19_Witness ==
    /\ Returned /\ ValidArgs
    /\ chunker.text # <<>>
    /\ Len(chunker.ret) >= 2
    /\ Len(chunker.ret)
          = CeilDiv(Len(chunker.text), chunker.max_chars - chunker.overlap)

AllWhitespace(text) == \A i \in 1 .. Len(text) : text[i] \in Whitespace

\* C20: chunk_text returns the empty sequence for an empty or all-whitespace
\* text; for any other text and 0 <= overlap < max_chars every chunk is
\* non-empty and at most max_chars characters long.
C20_ChunksNonEmpty ==
    Returned
        => IF AllWhitespace(chunker.text) THEN chunker.ret = <<>>
           ELSE ValidArgs
                   => /\ chunker.ret # <<>>
                      /\ \A i \in 1 .. Len(chunker.ret) :
                            /\ Len(chunker.ret[i]) >= 1
                            /\ Len(chunker.ret[i]) <= chunker.max_chars

\* a non-empty all-whitespace text has been chunked
C20_Witness ==
    /\ Returned
    /\ Len(chunker.text) >= 2
    /\ AllWhitespace(chunker.text)
    /\ chunker.ret = <<>>

---------------------------------------------------------------------------
(* HashedEmbeddings.embed_texts called on a batch of two texts             *)

\* longest text handed to embed_texts
MaxEmbedText == 4
EmbedAlphabet == {"a", "B", " "}
EmbedTexts == UNION {[1 .. n -> EmbedAlphabet] : n \in 0 .. MaxEmbedText}

callFrame ==
    <<storeVars, indexVars, threads, chunker, chunks_table, qa_history>>

\* the other objects are not constructed
NoObjects ==
    /\ docs = <<>>
    /\ lastCall = NoCall
    /\ backend = "memory"
    /\ rows = <<>>
    /\ lastOp = NoOp
    /\ threads = <<>>
    /\ chunker = <<>>
    /\ chunks_table = <<>>

InitEmbed ==
    /\ NoObjects
    /\ qa_history = <<>>
    /\ \E t1, t2 \in EmbedTexts :
          call = [fn |-> "embed_texts", pc |-> "call", texts |-> <<t1, t2>>,
                  ret |-> <<>>]

\* embed_texts(texts) runs and returns the array of rows
EmbedTexts_ ==
    /\ call.pc = "call"
    /\ call' = [call EXCEPT !.pc = "done", !.ret = embed_texts(call.texts)]
    /\ UNCHANGED callFrame

NextEmbed == EmbedTexts_

SpecEmbed == InitEmbed /\ [][NextEmbed]_vars

\* the vector hist / sqrt(div2) has L2 norm 1
UnitNorm(v) == ~IsZero(v) /\ norm2(v.hist) = v.div2

\* the all-zero vector, not divided by anything
ZeroVector(v) == IsZero(v) /\ v.div2 = 1

\* C21 as stated: every non-empty text embeds to a vector of norm 1, the
\* empty text to the zero vector, and equal texts to equal vectors.
C21_NonEmptyTextUnitNorm ==
    call.pc = "done"
        => /\ \A i \in 1 .. 2 :
                 IF call.texts[i] # <<>> THEN UnitNorm(call.ret[i])
                 ELSE ZeroVector(call.ret[i])
           /\ call.texts[1] = call.texts[2] => call.ret[1] = call.ret[2]

\* C21: every text with at least one token (a character that is not
\* whitespace) embeds to a vector of norm 1: its bucket histogram is non-zero
\* and is divided by its norm; the empty text and every all-whitespace text
\* embed to the zero vector, returned as it is; equal texts embed to equal
\* vectors.
C21_TokenTextUnitNorm ==
    call.pc = "done"
        => /\ \A i \in 1 .. 2 :
                 IF ~AllWhitespace(call.texts[i]) THEN UnitNorm(call.ret[i])
                 ELSE ZeroVector(call.ret[i])
           /\ call.texts[1] = call.texts[2] => call.ret[1] = call.ret[2]

\* a text with a repeated token (histogram count 2) and the empty text have
\* been embedded in one batch
C21_Witness ==
    /\ call.pc = "done"
    /\ call.texts[2] = <<>>
    /\ \E b \in DOMAIN call.ret[1].hist : call.ret[1].hist[b] = 2

---------------------------------------------------------------------------
(* summary_agent._mmr_select                                               *)

\* Floats of _mmr_select are kept as exact fractions n / d with d > 0.
Abs(x) == IF x < 0 THEN -x ELSE x
Rat(n, d) == LET g == Gcd(Abs(n), d) IN [n |-> n \div g, d |-> d \div g]
RatAdd(a, b) == Rat(a.n * b.d + b.n * a.d, a.d * b.d)
RatSub(a, b) == Rat(a.n * b.d - b.n * a.d, a.d * b.d)
RatMul(a, b) == Rat(a.n * b.n, a.d * b.d)
\* a > b, comparing the integer parts first and then the fractions
RatGt(a, b) ==
    LET fa == a.n \div a.d
        fb == b.n \div b.d
    IN  IF fa # fb THEN fa > fb ELSE (a.n % a.d) * b.d > (b.n % b.d) * a.d
RatGe(a, b) == ~RatGt(b, a)

\* the norm a row was divided by; the sentences used here have whole norms
isqrt(x) == CHOOSE r \in 0 .. x : r * r = x

\* float(vecs[i] @ vecs[j])
vec_dot(u, v) ==
    LET common == DOMAIN u.hist \cap DOMAIN v.hist
        n == SumOver([b \in common |-> u.hist[b] * v.hist[b]], common)
    IN  Rat(n, isqrt(u.div2) * isqrt(v.div2))

RECURSIVE RatSum(_, _)
RatSum(f, n) == IF n = 0 THEN Rat(0, 1) ELSE RatAdd(RatSum(f, n - 1), f[n])

\* a sequence with the values f[1], ..., f[n], computed once
RECURSIVE Computed(_, _)
Computed(f, n) == IF n = 0 THEN <<>> ELSE Append(Computed(f, n - 1), f[n])

\* the products vecs[i] @ vecs[j] of all pairs of rows
mmr_dots(vecs) ==
    Computed([i \in 1 .. Len(vecs) |->
                 Computed([j \in 1 .. Len(vecs) |-> vec_dot(vecs[i], vecs[j])],
                          Len(vecs))], Len(vecs))

\* rel = vecs @ np.mean(vecs, axis=0): for row i the mean of its dot products
\* with every row (rel[i + 1] here is rel[i] of the source)
mmr_rel(dots) ==
    Computed([i \in 1 .. Len(dots) |->
                 RatMul(Rat(1, Len(dots)), RatSum(dots[i], Len(dots)))],
             Len(dots))

RECURSIVE RatMax(_, _)
RatMax(f, n) ==
    IF n = 1 THEN f[1]
    ELSE LET m == RatMax(f, n - 1) IN IF RatGt(f[n], m) THEN f[n] ELSE m

\* div: 0.0 while nothing is chosen, else the largest dot with a chosen row
mmr_div(dots, i, chosen) ==
    IF chosen = <<>> THEN Rat(0, 1)
    ELSE RatMax([c \in 1 .. Len(chosen) |-> dots[i + 1][chosen[c] + 1]],
                Len(chosen))

\* score = lambda_weight * rel[i] - (1 - lambda_weight) * div
mmr_score(dots, rel, i, chosen, lambda_weight) ==
    RatSub(RatMul(lambda_weight, rel[i + 1]),
           RatMul(RatSub(Rat(1, 1), lambda_weight), mmr_div(dots, i, chosen)))

\* the comparison of line 157 with >= in place of >
better_or_equal(score, best_score) == RatGe(score, best_score)

\* if score > best_score
better(score, best_score) == RatGt(score, best_score)

\* for i in cand: ... ; a set of small ints iterates in ascending order
RECURSIVE mmr_scan(_, _, _, _, _, _, _)
mmr_scan(dots, rel, i, cand, chosen, lambda_weight, best) ==
    IF i >= Len(dots) THEN best
    ELSE IF i \notin cand
         THEN mmr_scan(dots, rel, i + 1, cand, chosen, lambda_weight, best)
         ELSE LET score == mmr_score(dots, rel, i, chosen, lambda_weight)
              IN  mmr_scan(dots, rel, i + 1, cand, chosen, lambda_weight,
                           IF better(score, best.best_score)
                           THEN [best_i |-> i, best_score |-> score]
                           ELSE best)

\* best_i = None (kept as -1); best_score = -1e9; then the scan over cand
mmr_best(dots, rel, cand, chosen, lambda_weight) ==
    mmr_scan(dots, rel, 0, cand, chosen, lambda_weight,
             [best_i |-> -1, best_score |-> Rat(-1000000000, 1)])

\* chosen left in selection order
chosen_unsorted(chosen) == chosen

\* chosen.sort()
RECURSIVE chosen_sort(_)
chosen_sort(chosen) ==
    IF chosen = <<>> THEN <<>>
    ELSE LET rest == chosen_sort(SubSeq(chosen, 1, Len(chosen) - 1))
             x == chosen[Len(chosen)]
         IN  SelectSeq(rest, LAMBDA y : y <= x) \o <<x>>
                 \o SelectSeq(rest, LAMBDA y : y > x)

\* most sentences handed to _mmr_select
MaxSents == 4
\* sentences with whole norms: three one-word sentences orthogonal to each
\* other and one (norm 3) that overlaps all three
MmrPool == {<<"a">>, <<"b">>, <<"c">>,
            <<"a", " ", "a", " ", "b", " ", "b", " ", "c">>}
MmrSents == UNION {[1 .. n -> MmrPool] : n \in 0 .. MaxSents}
MmrKs == -1 .. MaxSents + 1
\* the default lambda_weight 0.7 and the 0.72 passed by _extractive_mmr
MmrLambdas == {Rat(7, 10), Rat(72, 100)}

InitMmr ==
    /\ NoObjects
    /\ qa_history = <<>>
    /\ \E sents \in MmrSents, k \in MmrKs, lambda_weight \in MmrLambdas :
          call = [fn |-> "_mmr_select", pc |-> "call", sents |-> sents,
                  k |-> k, lambda_weight |-> lambda_weight,
                  dots |-> <<>>, rel |-> <<>>, chosen |-> <<>>, cand |-> {},
                  ret |-> <<>>]

\* lines 141-148: the early return, or the embedding and the candidate set
MmrEnter ==
    /\ call.pc = "call"
    /\ call' = IF call.sents = <<>>
               THEN [call EXCEPT !.pc = "done", !.ret = <<>>]
               ELSE LET dots == mmr_dots(embed_texts(call.sents))
                    IN  [call EXCEPT !.pc = "loop", !.dots = dots,
                                     !.rel = mmr_rel(dots),
                                     !.cand = 0 .. Len(call.sents) - 1]
    /\ UNCHANGED callFrame

\* one pass of the while loop, lines 149-161
MmrPick ==
    /\ call.pc = "loop"
    /\ Len(call.chosen) < Min(call.k, Len(call.sents))
    /\ LET best == mmr_best(call.dots, call.rel, call.cand, call.chosen,
                            call.lambda_weight)
       IN  call' = [call EXCEPT !.chosen = Append(@, best.best_i),
                                !.cand = @ \ {best.best_i}]
    /\ UNCHANGED callFrame

\* lines 162-163 once the loop condition fails; the indices go back to the
\* caller, which is _extractive_mmr or the caller of this specification
MmrReturn ==
    /\ call.pc = "loop"
    /\ ~(Len(call.chosen) < Min(call.k, Len(call.sents)))
    /\ call' = [call EXCEPT
                  !.pc = IF call.fn = "_mmr_select" THEN "done" ELSE "selected",
                  !.ret = chosen_sort(call.chosen)]
    /\ UNCHANGED callFrame

NextMmr == MmrEnter \/ MmrPick \/ MmrReturn

SpecMmr == InitMmr /\ [][NextMmr]_vars

Range(s) == {s[i] : i \in DOMAIN s}

\* C22: _mmr_select returns exactly min(max(k, 0), n) distinct indices of
\* its n sentences, in ascending order: none for k = 0, all of them for
\* k >= n.
C22_SelectionCountAndOrder ==
    call.pc = "done"
        => LET n == Len(call.sents)
           IN  /\ Len(call.ret) = Min(Max(call.k, 0), n)
               /\ Range(call.ret) \subseteq 0 .. n - 1
               /\ Cardinality(Range(call.ret)) = Len(call.ret)
               /\ \A p \in 1 .. Len(call.ret) - 1 :
                     call.ret[p] < call.ret[p + 1]
               /\ call.k = 0 => call.ret = <<>>
               /\ call.k >= n => Range(call.ret) = 0 .. n - 1

\* a call with 0 < k < n has returned indices it had picked in another order
C22_Witness ==
    /\ call.pc = "done"
    /\ 0 < call.k
    /\ call.k < Len(call.sents)
    /\ call.ret # call.chosen


\* the pick a pass of the loop has just appended to chosen
Picked == call'.chosen[Len(call'.chosen)]

\* the score of candidate i, from the sentences
ScoreOf(i, chosen) ==
    LET vecs == embed_texts(call.sents)
        n == Len(vecs)
        rel == RatMul(Rat(1, n),
                      RatSum([j \in 1 .. n |-> vec_dot(vecs[i + 1], vecs[j])],
                             n))
        div == IF chosen = <<>> THEN Rat(0, 1)
               ELSE RatMax([c \in 1 .. Len(chosen) |->
                               vec_dot(vecs[i + 1], vecs[chosen[c] + 1])],
                           Len(chosen))
    IN  RatSub(RatMul(call.lambda_weight, rel),
               RatMul(RatSub(Rat(1, 1), call.lambda_weight), div))

MmrScore(i) == ScoreOf(i, call.chosen)

\* C25: each pass of the loop appends a not-yet-chosen index whose score
\* lambda * rel - (1 - lambda) * (largest dot with a chosen row, 0 while none
\* is chosen) is the highest among the candidates, and the lowest index among
\* those that reach that score; the first pick has the highest relevance; a
\* call on identical sentences returns 0 .. min(k, n) - 1.
C25_GreedyPickLowestIndexOnTies ==
    /\ [][(call.pc = "loop" /\ call'.pc = "loop")
            => /\ Picked \in call.cand
               /\ \A j \in call.cand :
                     /\ RatGe(MmrScore(Picked), MmrScore(j))
                     /\ MmrScore(j) = MmrScore(Picked) => Picked <= j
               /\ call.chosen = <<>>
                     => \A j \in call.cand :
                           RatGe(call.rel[Picked + 1], call.rel[j + 1])]_vars
    /\ [](call.pc = "done"
             /\ (\A i \in DOMAIN call.sents : call.sents[i] = call.sents[1])
            => call.ret = [p \in 1 .. Min(Max(call.k, 0), Len(call.sents))
                             |-> p - 1])

\* a second pick (redundancy term in play) was made among candidates of which
\* a later, different sentence had the same score
C25_Witness ==
    /\ call.pc = "loop"
    /\ Len(call.chosen) = 2
    /\ \E j \in call.cand :
          /\ j > call.chosen[2]
          /\ call.sents[j + 1] # call.sents[call.chosen[2] + 1]
          /\ ScoreOf(j, <<call.chosen[1]>>)
                = ScoreOf(call.chosen[2], <<call.chosen[1]>>)

---------------------------------------------------------------------------
(* validator_agent: validate_summary and validate_answer                   *)

\* \w of WORD_RE, for the characters used here
WordChars == {"a", "b", "c", "A", "B", "C"}

\* WORD_RE.findall(text): the maximal runs of word characters
findall_words(text) == runs(text, 1, Len(text), WordChars, TRUE)

\* _word_count(text)
word_count(text) == Len(findall_words(text))

\* "  " in summary
has_double_space(summary) ==
    \E i \in 1 .. Len(summary) - 1 : summary[i] = " " /\ summary[i + 1] = " "

\* summary.strip().endswith((".", "!", "?"))
ends_with_terminator(summary) ==
    LET s == strip(summary)
    IN  s # <<>> /\ s[Len(s)] \in {".", "!", "?"}

\* the three penalties of lines 27-30, in hundredths, without line 31
score_penalties(summary, wc, min_words, max_words) ==
    100 - (IF wc < min_words THEN 30 ELSE 0)
        - (IF wc > max_words THEN 20 ELSE 0)
        - (IF has_double_space(summary) THEN 5 ELSE 0)

\* lines 27-31: the score in hundredths, 0.0 for a blank summary
summary_score(summary, wc, min_words, max_words) ==
    IF Len(strip(summary)) = 0 THEN 0
    ELSE 100 - (IF wc < min_words THEN 30 ELSE 0)
             - (IF wc > max_words THEN 20 ELSE 0)
             - (IF has_double_space(summary) THEN 5 ELSE 0)

\* msgs, by kind, in the order they are appended
summary_msgs(summary, wc, min_words, max_words) ==
    (IF wc < min_words THEN <<"too_short">> ELSE <<>>)
        \o (IF wc > max_words THEN <<"too_long">> ELSE <<>>)
        \o (IF strip(summary) # <<>> /\ ~ends_with_terminator(summary)
            THEN <<"no_terminator">> ELSE <<>>)
        \o (IF Len(strip(summary)) = 0 THEN <<"empty">> ELSE <<>>)

\* validate_summary(summary, min_words, max_words)
validate_summary(summary, min_words, max_words) ==
    LET wc == word_count(summary)
        score == summary_score(summary, wc, min_words, max_words)
    IN  [ok |-> score >= 60 /\ wc >= min_words,
         score |-> Max(0, Min(100, score)),
         messages |-> summary_msgs(summary, wc, min_words, max_words),
         word_count |-> wc]

\* longest summary handed to validate_summary
MaxSummaryText == 4
SummaryAlphabet == {"a", " ", "."}
SummaryTexts == UNION {[1 .. n -> SummaryAlphabet] : n \in 0 .. MaxSummaryText}
WordLimits == 0 .. 3

NoReport == [ok |-> FALSE, score |-> 0, messages |-> <<>>, word_count |-> 0]

InitValidateSummary ==
    /\ NoObjects
    /\ qa_history = <<>>
    /\ \E summary \in SummaryTexts, min_words, max_words \in WordLimits :
          call = [fn |-> "validate_summary", pc |-> "call",
                  summary |-> summary, min_words |-> min_words,
                  max_words |-> max_words, ret |-> NoReport]

ValidateSummary ==
    /\ call.pc = "call"
    /\ call' = [call EXCEPT
                  !.pc = "done",
                  !.ret = validate_summary(call.summary, call.min_words,
                                           call.max_words)]
    /\ UNCHANGED callFrame

NextValidateSummary == ValidateSummary

SpecValidateSummary == InitValidateSummary /\ [][NextValidateSummary]_vars

\* the number of places where a run of word characters starts
WordStarts(text) ==
    Cardinality({i \in 1 .. Len(text) :
                    /\ text[i] \in WordChars
                    /\ i = 1 \/ text[i - 1] \notin WordChars})

\* C23: validate_summary returns a report whose score is 1.0 less 0.3 for
\* fewer than min_words words, 0.2 for more than max_words and 0.05 for a
\* double space, 0.0 for an empty or blank text, and within [0, 1]; ok is
\* true exactly when the score is at least 0.6 and the word count at least
\* min_words; an empty summary is never ok and scores 0.0, also for
\* min_words = 0.
C23_SummaryScoreAndOk ==
    call.pc = "done"
        => LET wc == WordStarts(call.summary)
               blank == AllWhitespace(call.summary)
           IN  /\ call.ret.word_count = wc
               /\ call.ret.score \in 0 .. 100
               /\ ~blank =>
                     call.ret.score
                        = 100 - (IF wc < call.min_words THEN 30 ELSE 0)
                              - (IF wc > call.max_words THEN 20 ELSE 0)
                              - (IF has_double_space(call.summary)
                                 THEN 5 ELSE 0)
               /\ blank => call.ret.score = 0 /\ ~call.ret.ok
               /\ call.ret.ok
                     <=> (call.ret.score >= 60 /\ wc >= call.min_words)

\* a blank summary was validated with min_words = 0
C23_Witness ==
    /\ call.pc = "done"
    /\ call.min_words = 0
    /\ call.summary = <<" ", " ">>


\* " ".join(contexts or [])
RECURSIVE join_space(_)
join_space(texts) ==
    IF texts = <<>> THEN <<>>
    ELSE IF Len(texts) = 1 THEN texts[1]
         ELSE LET m == Len(texts) \div 2
              IN  join_space(SubSeq(texts, 1, m)) \o <<" ">>
                      \o join_space(SubSeq(texts, m + 1, Len(texts)))

\* w.lower() for a word w
lower_word(w) == [i \in 1 .. Len(w) |-> lower(w[i])]

\* [w.lower() for w in WORD_RE.findall(text)]
lower_words(text) ==
    LET ws == findall_words(text)
    IN  [i \in 1 .. Len(ws) |-> lower_word(ws[i])]

\* round(x, 2) of the fraction x, in hundredths (ties go to the even digit)
round2(x) ==
    LET q == (100 * x.n) \div x.d
        rem == (100 * x.n) % x.d
    IN  IF 2 * rem > x.d THEN q + 1
        ELSE IF 2 * rem = x.d THEN q + (q % 2)
        ELSE q

\* the comparison of line 51 with > in place of >=
answer_ok_strict(score) == RatGt(score, Rat(7, 10))

\* ok = score >= 0.7
answer_ok(score) == RatGe(score, Rat(7, 10))

\* validate_answer(answer, contexts)
validate_answer(answer, contexts) ==
    LET wc == word_count(answer)
        ctx_words == Range(lower_words(join_space(contexts)))
        ans_words == lower_words(answer)
        overlap == Len(SelectSeq(ans_words, LAMBDA w : w \in ctx_words))
        ratio == Rat(overlap, Max(1, Len(ans_words)))
        score == RatAdd(Rat(6, 10), RatMul(ratio, Rat(4, 10)))
    IN  IF wc = 0
        THEN [ok |-> FALSE, score |-> 0, messages |-> <<"empty">>,
              word_count |-> wc, overlap_ratio |-> 0]
        ELSE [ok |-> answer_ok(score), score |-> round2(score),
              messages |-> IF RatGt(Rat(15, 100), ratio)
                           THEN <<"low_overlap">> ELSE <<>>,
              word_count |-> wc, overlap_ratio |-> round2(ratio)]

\* longest answer handed to validate_answer (four one-letter words)
MaxAnswerText == 7
AnswerAlphabet == {"a", "B", " "}
AnswerTexts == UNION {[1 .. n -> AnswerAlphabet] : n \in 0 .. MaxAnswerText}
ContextPool == {<<"a">>, <<"b">>, <<"a", "b">>}
AnswerContexts == UNION {[1 .. n -> ContextPool] : n \in 0 .. 2}

NoAnswerReport ==
    [ok |-> FALSE, score |-> 0, messages |-> <<>>, word_count |-> 0,
     overlap_ratio |-> 0]

InitValidateAnswer ==
    /\ NoObjects
    /\ qa_history = <<>>
    /\ \E answer \in AnswerTexts, contexts \in AnswerContexts :
          call = [fn |-> "validate_answer", pc |-> "call", answer |-> answer,
                  contexts |-> contexts, ret |-> NoAnswerReport]

ValidateAnswer ==
    /\ call.pc = "call"
    /\ call' = [call EXCEPT
                  !.pc = "done",
                  !.ret = validate_answer(call.answer, call.contexts)]
    /\ UNCHANGED callFrame

NextValidateAnswer == ValidateAnswer

SpecValidateAnswer == InitValidateAnswer /\ [][NextValidateAnswer]_vars

\* the answer's words, lower-cased, found among the words of some context
OverlapCount ==
    LET ans == lower_words(call.answer)
    IN  Cardinality({i \in 1 .. Len(ans) :
                        \E c \in 1 .. Len(call.contexts) :
                           ans[i] \in Range(lower_words(call.contexts[c]))})

\* C24: validate_answer returns ok = false and score 0.0 for an answer with
\* no word; otherwise, with n answer words of which o occur in the contexts,
\* the score is 0.6 + 0.4 * o / n (rounded to two places), between 0.6 and
\* 1.0, and ok is true exactly when 4 * o >= n.
C24_AnswerScoreAndOk ==
    call.pc = "done"
        => LET n == WordStarts(call.answer)
               o == OverlapCount
           IN  IF n = 0
               THEN ~call.ret.ok /\ call.ret.score = 0
               ELSE /\ call.ret.score = round2(Rat(60 * n + 40 * o, 100 * n))
                    /\ call.ret.score \in 60 .. 100
                    /\ call.ret.ok <=> 4 * o >= n
                    /\ call.ret.ok <=> call.ret.score >= 70

\* an answer of four words, exactly one of them in the contexts, has been
\* validated: the score is 0.7, the threshold
C24_Witness ==
    /\ call.pc = "done"
    /\ call.ret.word_count = 4
    /\ call.ret.overlap_ratio = 25
    /\ call.ret.score = 70

---------------------------------------------------------------------------
(* SummaryAgent._extractive_mmr                                            *)

Terminators == {".", "!", "?"}

\* the first position from i on that holds no whitespace
RECURSIVE skip_whitespace(_, _)
skip_whitespace(text, i) ==
    IF i <= Len(text) /\ text[i] \in Whitespace
    THEN skip_whitespace(text, i + 1) ELSE i

\* the first position from i on where a run of whitespace follows a
\* terminator, Len(text) + 1 when there is none
next_cut(text, i) ==
    LET cuts == {j \in i .. Len(text) :
                    /\ text[j] \in Whitespace
                    /\ j > 1
                    /\ text[j - 1] \in Terminators}
    IN  IF cuts = {} THEN Len(text) + 1
        ELSE CHOOSE j \in cuts : \A m \in cuts : j <= m

\* _SENT_SPLIT.split(text) from position i: cut at each run of whitespace
\* that follows a terminator
RECURSIVE sent_split(_, _)
sent_split(text, i) ==
    LET j == next_cut(text, i)
    IN  IF j > Len(text) THEN <<SubSeq(text, i, Len(text))>>
        ELSE <<SubSeq(text, i, j - 1)>>
                 \o sent_split(text, skip_whitespace(text, j))

\* _sentences(text)
sentences(text) ==
    LET t == strip(text)
        pieces == sent_split(t, 1)
        s == SelectSeq([p \in 1 .. Len(pieces) |-> strip(pieces[p])],
                       LAMBDA x : x # <<>>)
    IN  IF s # <<>> THEN s ELSE IF t # <<>> THEN <<t>> ELSE <<>>

\* _wc(txt)
wc(txt) == Len(findall_words(txt))

\* str.split(): the maximal runs of non-whitespace characters, as written
py_split(text) == runs(text, 1, Len(text), Whitespace, FALSE)

\* floor(log2(x)) for x >= 1
RECURSIVE log2(_)
log2(x) == IF x < 2 THEN 0 ELSE 1 + log2(x \div 2)

RECURSIVE pow2(_)
pow2(e) == IF e = 0 THEN 1 ELSE 2 * pow2(e - 1)

\* floor(1.15 * target_words)
cap_floor(target_words) == (115 * target_words) \div 100

\* int(target_words * 1.15) in IEEE doubles.  The double 1.15 is
\* 1.15 - (2/5) * 2^-52, so the product is below 1.15 * t by t * (2/5) * 2^-52
\* before it is rounded.  When 1.15 * t is a whole number N the rounding
\* returns N only if that gap is at most half a unit in the last place below
\* N; otherwise the product is just under N and int() gives N - 1.
cap_int(target_words) ==
    LET N == (115 * target_words) \div 100
        r == (115 * target_words) % 100
        e == log2(N)
    IN  IF r # 0 \/ target_words = 0 THEN N
        ELSE IF N = pow2(e)
             THEN (IF 8 * target_words <= 5 * pow2(e) THEN N ELSE N - 1)
             ELSE (IF 4 * target_words <= 5 * pow2(e) THEN N ELSE N - 1)

\* most sentences in a text handed to _extractive_mmr
MaxExtractSents == 6
\* words of the one-sentence text that exceeds the cap for target_words = 100
MaxBodyWords == 115
\* sentences with whole norms: two one-word sentences and one of five words
ExtractPool == {<<"a", ".">>, <<"b", ".">>,
                <<"a", " ", "a", " ", "b", " ", "b", " ", "c", ".">>}
LongText == [p \in 1 .. 2 * MaxBodyWords - 1 |-> IF p % 2 = 1 THEN "a" ELSE " "]
ExtractTexts ==
    {join_space(s) : s \in UNION {[1 .. n -> ExtractPool] :
                                     n \in 0 .. MaxExtractSents}}
        \cup {<<" ">>, LongText}
\* target_words: 0, one word more than five one-word sentences, the least
\* value the API accepts, the value of the tests
TargetWords == {0, 6, 50, 100}

InitExtract ==
    /\ NoObjects
    /\ qa_history = <<>>
    /\ \E text \in ExtractTexts, target_words \in TargetWords :
          call = [fn |-> "_extractive_mmr", pc |-> "call", text |-> text,
                  target_words |-> target_words, sents |-> <<>>, k |-> 0,
                  lambda_weight |-> Rat(72, 100), dots |-> <<>>,
                  rel |-> <<>>, chosen |-> <<>>, cand |-> {}, ret |-> <<>>,
                  chosen_idx |-> <<>>, chosen_sents |-> <<>>, out |-> <<>>,
                  i |-> 0, appended |-> <<>>, body |-> <<>>]

\* lines 197-203 and the call of line 204 up to the loop of _mmr_select
\* (its lines 141-148); sents is never empty there
ExtractEnter ==
    /\ call.pc = "call"
    /\ LET sents == sentences(call.text)
           dots == mmr_dots(embed_texts(sents))
       IN  call' = IF sents = <<>>
                   THEN [call EXCEPT !.pc = "done", !.body = <<>>]
                   ELSE [call EXCEPT
                           !.pc = "loop", !.sents = sents,
                           !.k = Max(5, Min(Len(sents),
                                            call.target_words \div 20)),
                           !.dots = dots, !.rel = mmr_rel(dots),
                           !.cand = 0 .. Len(sents) - 1]
    /\ UNCHANGED callFrame

\* lines 204-212 after _mmr_select has returned: chosen, out and i
ExtractJoin ==
    /\ call.pc = "selected"
    /\ LET chosen_sents == [c \in 1 .. Len(call.ret) |->
                               call.sents[call.ret[c] + 1]]
       IN  call' = [call EXCEPT !.pc = "expand", !.chosen_idx = call.ret,
                                !.chosen_sents = chosen_sents,
                                !.out = join_space(chosen_sents), !.i = 0]
    /\ UNCHANGED callFrame

\* one pass of the while loop, lines 213-217; appended records the indices
\* of the sentences added to out
ExtractExpand ==
    /\ call.pc = "expand"
    /\ wc(call.out) < call.target_words
    /\ call.i < Len(call.sents) * 2
    /\ LET idx == call.i % Len(call.sents)
           cand == call.sents[idx + 1]
       IN  call' = IF cand \notin Range(call.chosen_sents)
                   THEN [call EXCEPT !.out = @ \o <<" ">> \o cand,
                                     !.appended = Append(@, idx),
                                     !.i = @ + 1]
                   ELSE [call EXCEPT !.i = @ + 1]
    /\ UNCHANGED callFrame

\* lines 219-224 once the loop condition fails
ExtractTrim ==
    /\ call.pc = "expand"
    /\ ~(wc(call.out) < call.target_words /\ call.i < Len(call.sents) * 2)
    /\ LET words == py_split(call.out)
           cap == cap_int(call.target_words)
       IN  call' = [call EXCEPT
                      !.pc = "done",
                      !.body = IF Len(words) > cap
                               THEN join_space(py_slice_to(words, cap))
                               ELSE call.out]
    /\ UNCHANGED callFrame

NextExtract ==
    \/ ExtractEnter
    \/ MmrPick
    \/ MmrReturn
    \/ ExtractJoin
    \/ ExtractExpand
    \/ ExtractTrim

SpecExtract == InitExtract /\ [][NextExtract]_vars


\* a pass of the expansion loop that adds a sentence to out
Appends == call.pc = "expand" /\ call'.pc = "expand" /\ call'.out # call.out

\* C26: when the selected sentences have fewer than target_words words, the
\* sentences that were not selected are appended in document order, each at
\* most once (the appended indices are strictly ascending and none is a
\* selected index), a sentence is appended only while the target is not met,
\* the loop ends short of the target only when no sentence outside the
\* selection is left to append, and a text with a sentence gives a non-empty
\* body (for target_words > 0).
C26_AppendsEachUnselectedOnce ==
    /\ [][Appends
            => /\ wc(call.out) < call.target_words
               /\ call.i % Len(call.sents) \notin Range(call.chosen_idx)]_vars
    /\ [](call.fn = "_extractive_mmr"
            => \A p \in 1 .. Len(call.appended) - 1 :
                  call.appended[p] < call.appended[p + 1])
    /\ [](call.fn = "_extractive_mmr" /\ call.pc = "done"
             /\ wc(call.out) < call.target_words
            => \A x \in 1 .. Len(call.sents) :
                  \/ call.sents[x] \in Range(call.chosen_sents)
                  \/ x - 1 \in Range(call.appended))
    /\ [](call.fn = "_extractive_mmr" /\ call.pc = "done"
             /\ call.sents # <<>> /\ call.target_words > 0
            => call.body # <<>>)

\* C27: the body returned by _extractive_mmr has at most
\* floor(1.15 * target_words) words, and a body that was trimmed is the first
\* floor(1.15 * target_words) words of the untrimmed text, joined by blanks.
C27_TrimmedToFloorOfCap ==
    call.fn = "_extractive_mmr" /\ call.pc = "done"
        => LET words == py_split(call.out)
               cap == cap_floor(call.target_words)
           IN  /\ Len(py_split(call.body)) <= cap
               /\ call.body # call.out
                     => call.body = join_space(SubSeq(words, 1, cap))

---------------------------------------------------------------------------
(* DocumentStore: status and the shared summary slot                       *)

\* messages handed to set_error
StatusMessages == {"boom", "bang"}
\* the one id add_document draws here; "d2" stays unknown to the store
StatusIds == {"d1"}

NextStatus ==
    \/ \E id \in StatusIds, f \in Filenames, p \in Paths : AddDocument(id, f, p)
    \/ \E t \in Timestamps, id \in CallerIds, c \in Contents,
          n \in PushNotes, v \in Validations : PushSummaryVersion(t, id, c, n, v)
    \/ \E t \in Timestamps, id \in CallerIds, c \in Contents : SetSummary(t, id, c)
    \/ \E id \in CallerIds, m \in StatusMessages : SetError(id, m)
    \/ \E id \in CallerIds : ListSummaryVersions(id)
    \/ \E t \in Timestamps, id \in CallerIds, i \in VersionIndexes :
          RollbackSummary(t, id, i)

SpecStatus == InitStore /\ [][NextStatus]_vars

\* C28: every document's status is pending, ready or error; pending goes
\* with an empty history and no summary, ready with a non-empty history whose
\* last version's content is the summary, error with a summary that is the
\* message of the latest set_error on the document (written by that call and
\* left alone by every call that leaves the status at error); no call takes
\* a status back to pending.
C28_StatusAgreesWithSlot ==
    /\ [](\A d \in DOMAIN docs :
             /\ docs[d].status \in {"pending", "ready", "error"}
             /\ docs[d].status = "pending"
                   => History(d) = <<>> /\ docs[d].summary = None
             /\ docs[d].status = "ready"
                   => /\ History(d) # <<>>
                      /\ Last(History(d)).content = docs[d].summary
             /\ docs[d].status = "error"
                   => docs[d].summary \in StatusMessages)
    /\ [][\A d \in DOMAIN docs' :
             /\ (d \in DOMAIN docs /\ docs[d].status # "pending")
                   => docs'[d].status # "pending"
             /\ docs'[d].status = "error"
                   => IF lastCall'.op = "set_error" /\ lastCall'.doc_id = d
                      THEN docs'[d].summary = lastCall'.message
                      ELSE /\ d \in DOMAIN docs
                           /\ docs[d].status = "error"
                           /\ docs'[d].summary = docs[d].summary]_vars

\* a document with two versions is in error with the message "bang" after a
\* rollback that was refused
C28_Witness ==
    /\ "d1" \in DOMAIN docs
    /\ docs["d1"].status = "error"
    /\ docs["d1"].summary = "bang"
    /\ Len(History("d1")) = 2
    /\ lastCall.op = "rollback_summary"
    /\ lastCall.doc_id = "d1"

---------------------------------------------------------------------------
(* Ingestion: Orchestrator.ingest_document and the route upload_document   *)

IngestFns == {"ingest_document", "upload_document"}
\* what summarizer.summarize returns ("" for a document without text)
IngestSummaries == {"", "s1"}
\* reports of validate_summary
IngestReports == {"ok_report", "not_ok_report"}
\* str(e) of the exception a step raises
Exceptions == {"boom"}

\* f"Processing error: {e}"
ProcessingError(e) == CASE e = "boom" -> "Processing error: boom"

\* a raise that escapes the handler of one step (as if upsert were outside
\* the try block)
raise_to_outside(pc) == IF pc = "upsert" THEN "raised" ELSE "except"

\* where a raise inside the try block goes: except Exception as e
raise_to(pc) == "except"

IdleCall ==
    [fn |-> "none", pc |-> "idle", doc_id |-> None, summary |-> None,
     val |-> None, e |-> None, status |-> None]

InitIngest ==
    /\ docs = <<>>
    /\ lastCall = NoCall
    /\ backend = "memory"
    /\ rows = <<>>
    /\ lastOp = NoOp
    /\ threads = <<>>
    /\ chunker = <<>>
    /\ chunks_table = <<>>
    /\ qa_history = <<>>
    /\ call = IdleCall

ingestFrame ==
    <<indexVars, threads, chunker, chunks_table, qa_history>>

Finished == call.pc \in {"idle", "returned", "raised"}

\* the call up to and including store.add_document; the route raises 415
\* (or fails to save the upload) before it registers anything
BeginIngest(fn, id, f, p, accepted) ==
    /\ Finished
    /\ id \notin DOMAIN docs
    /\ IF fn = "upload_document" /\ ~accepted
       THEN /\ call' = [IdleCall EXCEPT !.fn = fn, !.pc = "raised"]
            /\ UNCHANGED <<docs, lastCall>>
       ELSE /\ docs' = [x \in DOMAIN docs \cup {id} |->
                           IF x = id THEN DocumentRecord(id, f, p)
                           ELSE docs[x]]
            /\ lastCall' = Call("add_document", id, RetStr(id))
            /\ call' = [IdleCall EXCEPT !.fn = fn, !.pc = "parse",
                                        !.doc_id = id]
    /\ UNCHANGED ingestFrame

\* parse_file, chunk_text, vstore.upsert_document: each returns or raises
IngestStep(e) ==
    /\ call.pc \in {"parse", "chunk", "upsert"}
    /\ call' = IF e = None
               THEN [call EXCEPT !.pc = CASE call.pc = "parse" -> "chunk"
                                          [] call.pc = "chunk" -> "upsert"
                                          [] call.pc = "upsert" -> "summarize"]
               ELSE [call EXCEPT !.pc = raise_to(call.pc), !.e = e]
    /\ UNCHANGED <<docs, lastCall, ingestFrame>>

\* summarizer.summarize(chunks, target_words=...)
IngestSummarize(summary, e) ==
    /\ call.pc = "summarize"
    /\ call' = IF e = None
               THEN [call EXCEPT !.pc = "validate", !.summary = summary]
               ELSE [call EXCEPT !.pc = raise_to(call.pc), !.e = e]
    /\ UNCHANGED <<docs, lastCall, ingestFrame>>

\* validate_summary(summary, min_words, max_words): always a report
IngestValidate(val) ==
    /\ call.pc = "validate"
    /\ call' = [call EXCEPT !.pc = "push", !.val = val]
    /\ UNCHANGED <<docs, lastCall, ingestFrame>>

\* store.push_summary_version(doc_id, summary, note="ingest_summary",
\*                            validation=val)
IngestPush(t) ==
    /\ call.pc = "push"
    /\ LET r == push_summary_version(docs, t, call.doc_id, call.summary,
                                     "ingest_summary", call.val)
       IN  /\ docs' = r.docs
           /\ lastCall' = Call("push_summary_version", call.doc_id,
                               RetInt(r.ret))
    /\ call' = [call EXCEPT !.pc = "post"]
    /\ UNCHANGED ingestFrame

\* the rest of the try block and the return: extract_entities, or
\* status = "ready" and record_event
IngestPost(e) ==
    /\ call.pc = "post"
    /\ call' = IF e = None
               THEN [call EXCEPT !.pc = "returned", !.status = "ready"]
               ELSE [call EXCEPT !.pc = raise_to(call.pc), !.e = e]
    /\ UNCHANGED <<docs, lastCall, ingestFrame>>

\* except Exception as e: store.set_error(doc_id, f"Processing error: {e}");
\* the orchestrator then returns, the route goes on to record_event
IngestExcept ==
    /\ call.pc = "except"
    /\ docs' = set_error(docs, call.doc_id, ProcessingError(call.e)).docs
    /\ lastCall' = [op |-> "set_error", doc_id |-> call.doc_id,
                    ret |-> RetNone, message |-> ProcessingError(call.e)]
    /\ call' = [call EXCEPT
                  !.pc = IF call.fn = "upload_document" THEN "record_error"
                         ELSE "returned",
                  !.status = "error"]
    /\ UNCHANGED ingestFrame

\* record_event("error", ...) in the route's except block, and the return
IngestRecordError(e) ==
    /\ call.pc = "record_error"
    /\ call' = [call EXCEPT !.pc = IF e = None THEN "returned" ELSE "raised"]
    /\ UNCHANGED <<docs, lastCall, ingestFrame>>

IngestRun ==
    \/ \E e \in Exceptions \cup {None} : IngestStep(e)
    \/ \E s \in IngestSummaries, e \in Exceptions \cup {None} :
          IngestSummarize(s, e)
    \/ \E v \in IngestReports : IngestValidate(v)
    \/ \E t \in Timestamps : IngestPush(t)
    \/ \E e \in Exceptions \cup {None} : IngestPost(e)
    \/ IngestExcept
    \/ \E e \in Exceptions \cup {None} : IngestRecordError(e)

NextIngest ==
    \/ \E fn \in IngestFns, id \in UuidPool, f \in Filenames, p \in Paths,
          accepted \in BOOLEAN : BeginIngest(fn, id, f, p, accepted)
    \/ IngestRun

SpecIngest == InitIngest /\ [][NextIngest]_vars

\* a call that has begun keeps running: every step it makes terminates
FairSpecIngest == SpecIngest /\ WF_vars(IngestRun)

IngestedReady(d) ==
    /\ docs[d].status = "ready"
    /\ \E v \in 1 .. Len(History(d)) :
          /\ History(d)[v].note = "ingest_summary"
          /\ History(d)[v].content = docs[d].summary

IngestedError(d) ==
    /\ docs[d].status = "error"
    /\ \E e \in Exceptions : docs[d].summary = ProcessingError(e)

\* C29: a document registered by ingest_document or upload_document leaves
\* the pending state: when the call is over the document is ready, with a
\* version noted ingest_summary whose content is the summary, or in error
\* with the "Processing error: ..." message as its summary; it is in error
\* whenever a step raised; and no document stays pending forever.
C29_IngestionLeavesPending ==
    /\ [](call.pc \in {"returned", "raised"} /\ call.doc_id # None
            => /\ IngestedReady(call.doc_id) \/ IngestedError(call.doc_id)
               /\ call.e # None => IngestedError(call.doc_id)
               /\ call.pc = "returned"
                     => call.status = docs[call.doc_id].status)
    /\ \A d \in UuidPool :
          (d \in DOMAIN docs /\ docs[d].status = "pending")
              ~> (d \in DOMAIN docs /\ docs[d].status # "pending")

\* an upload has returned with status error after the push had made the
\* document ready (the record_event after it raised)
C29_Witness ==
    /\ call.pc = "returned"
    /\ call.fn = "upload_document"
    /\ call.e # None
    /\ docs[call.doc_id].status = "error"
    /\ History(call.doc_id) # <<>>

---------------------------------------------------------------------------
(* QAHistory                                                               *)

\* most add calls in one behaviour
MaxAdds == 4
\* max_items of the constructor (200 for the module's qa_history)
MaxItemsPool == 1 .. 3
Questions == {"q1", "q2"}
\* the argument of list(last=...), which GET /qa/history?limit= passes on
Lasts == 0 .. MaxAdds + 1

QARecord(ts, question) ==
    [ts |-> ts, question |-> question, answer |-> "ans", sources |-> <<>>,
     validation |-> None]

\* seq[-k:] for k >= 0: -0 is 0, so seq[-0:] is the whole list
py_slice_last(seq, k) ==
    IF k = 0 THEN seq ELSE SubSeq(seq, Max(Len(seq) - k, 0) + 1, Len(seq))

\* seq[::-1]
py_reversed(seq) == [i \in 1 .. Len(seq) |-> seq[Len(seq) + 1 - i]]

\* QAHistory.add: the new _items
history_add(items, max, rec) ==
    LET appended == Append(items, rec)
    IN  IF Len(appended) > max THEN py_slice_last(appended, max) ELSE appended

\* QAHistory.list(last)
history_list(items, last) == py_reversed(py_slice_last(items, last))

\* QAHistory(max_items); added lists every record handed to add
InitHistory ==
    /\ NoObjects
    /\ call = <<>>
    /\ \E max_items \in MaxItemsPool :
          qa_history = [items |-> <<>>, max |-> max_items, added |-> <<>>,
                        op |-> "init", last |-> 0, ret |-> <<>>]

historyFrame ==
    <<storeVars, indexVars, threads, chunker, chunks_table, call>>

HistoryAdd(ts, question) ==
    /\ Len(qa_history.added) < MaxAdds
    /\ LET rec == QARecord(ts, question)
       IN  qa_history' =
              [qa_history EXCEPT
                 !.items = history_add(@, qa_history.max, rec),
                 !.added = Append(@, rec),
                 !.op = "add", !.last = 0, !.ret = <<>>]
    /\ UNCHANGED historyFrame

HistoryList(last) ==
    /\ qa_history' = [qa_history EXCEPT
                        !.op = "list", !.last = last,
                        !.ret = history_list(qa_history.items, last)]
    /\ UNCHANGED historyFrame

NextHistory ==
    \/ \E ts \in Timestamps, q \in Questions : HistoryAdd(ts, q)
    \/ \E last \in Lasts : HistoryList(last)

SpecHistory == InitHistory /\ [][NextHistory]_vars

\* the n most recently added of the records in seq, newest first
NewestFirst(seq, n) == [i \in 1 .. Min(n, Len(seq)) |-> seq[Len(seq) + 1 - i]]

\* C30: after any sequence of add calls the history holds at most max_items
\* records, the most recently added ones in insertion order, and
\* list(last=n), n >= 0, returns the min(n, retained) most recently added
\* records, newest first.
C30_BoundedMostRecentFirst ==
    /\ Len(qa_history.items) <= qa_history.max
    /\ qa_history.items
          = SubSeq(qa_history.added,
                   Len(qa_history.added) - Len(qa_history.items) + 1,
                   Len(qa_history.added))
    /\ Len(qa_history.items) = Min(qa_history.max, Len(qa_history.added))
    /\ qa_history.op = "list"
          => qa_history.ret = NewestFirst(qa_history.items, qa_history.last)

===========================================================================
